---- MODULE Spec2Model ----
(***************************************************************************)
(* Model of the care-record backend: the mapping parser                    *)
(* (utils/mapping_parser.py), the field categorizer and the multi-phase    *)
(* extraction orchestrator (services/ai_service.py) and the cell resolver  *)
(* / batch writer (services/sheets_service.py).                            *)
(*                                                                         *)
(* Python strings whose characters the code inspects (field names, mapping *)
(* text) are sequences of Unicode code points, so that `kw in key`,        *)
(* split, strip and the regular expressions are computed, not assumed.     *)
(***************************************************************************)
EXTENDS Integers, Sequences, FiniteSets, TLC

VARIABLES
    pc,              \* position of the one call in progress
    all_keys,        \* extract_assessment_info: list(full_mapping.keys())
    field_groups,    \* extract_assessment_info: _categorize_fields(all_keys)
    mapping_text,    \* parse_mapping: the text to parse
    src_lines,       \* how mapping_text was put together, line by line
    parse_result,    \* parse_mapping: the returned mapping_dict
    client,          \* SheetsService.client is not None
    mapping_dict,    \* SheetsService.mapping_dict (loaded: not None)
    mapping2_dict,   \* SheetsService.mapping2_dict
    mapping_type,    \* write_data: argument
    data,            \* write_data: argument, the items of the record
    flat_data,       \* write_data: the flattened record, in insertion order
    cells_to_update, \* write_data: the queue of (cell, value)
    resolved,        \* what each mapping field was resolved to (history)
    written_count,   \* write_data: local counter
    open_calls,      \* calls of client.open_by_key (history)
    batch_log,       \* arguments of the calls of worksheet.batch_update (history)
    batch_failed,    \* the batch call raised
    cell_log,        \* calls of worksheet.update_acell and their outcome (history)
    fb_idx,          \* position of the fallback loop in cells_to_update
    write_result,    \* write_data: what the call returned or raised
    file_contents,   \* extract_assessment_info: argument (the mime types)
    up_idx,          \* _upload_files_to_gemini: the file being staged
    polls,           \* _upload_to_gemini: polls of the file being staged
    remote,          \* per file: its state at the backend ("none": not there)
    tmp,             \* per file: its temporary file ("none", "exists", "removed")
    stage_calls,     \* per file: calls of genai.upload_file (history)
    delete_calls,    \* per file: calls of genai.delete_file (history)
    unlink_calls,    \* per file: calls of os.unlink on its temporary file (history)
    uploaded_files,  \* the handles _upload_to_gemini has returned
    tmp_paths,       \* the temporary files of those handles
    phase,           \* extract_assessment_info: i + 1 of the loop over field_groups
    attempt,         \* _generate_with_retry: attempt
    master_result,   \* extract_assessment_info: the merged record
    phase_status,    \* per phase: pending, skipped, ok, nondict, failed (history)
    phase_keys,      \* per phase: the keys of the object it merged (history)
    used_in,         \* per file: the handle states in which a call referenced it (history)
    ws_exists,       \* row writers: spreadsheet.worksheet(sheet_name) finds the sheet
    headers,         \* row writers: what worksheet.row_values(1) returns
    date_str,        \* write_management_meeting_to_row: argument
    time_str,        \* write_management_meeting_to_row: argument
    place,           \* write_management_meeting_to_row: argument
    participants,    \* write_management_meeting_to_row: argument
    appended,        \* arguments of the calls of worksheet.append_row (history)
    row_result,      \* row writers: what the call returned or raised
    endpoint,        \* main.py: the operation that handles the request
    request,         \* main.py: the request
    s3_client,       \* StorageService.s3_client is not None
    in_store,        \* the keys storage_service.get_file returns an object for
    fetched,         \* analyze_*: file_contents, as (key, mime type)
    analysis,        \* analyze_*: how the call of the AI service ended (history)
    response,        \* main.py: what the handler returned or raised
    uuids,           \* calls of uuid.uuid4 so far; the n-th call returns n
    tasks,           \* background_tasks: the tasks added
    drafts,          \* the draft keys put into the object store
    bg_status,       \* run_background_generation: per artifact (history)
    backend,         \* _generate_with_retry: what generate_content does, call by call
    calls,           \* _generate_with_retry: calls of generate_content (history)
    sleeps,          \* _generate_with_retry: arguments of time.sleep (history)
    retry_result,    \* _generate_with_retry: what the call returned or raised
    configured,      \* write_to_sheets: the ids set in the backend variables
    append_result,   \* write_to_sheets: what the row writer returned
    create_result,   \* write_to_sheets: what the creation of the document returned
    creation,        \* how the creation of the document ended (history)
    writes,          \* create_and_write_assessment: the calls of write_data (history)
    new_docs,        \* the files created in Drive
    fields,          \* _generate_partial_prompt: argument, the names of a group
    prompt           \* _generate_partial_prompt: the parts of the returned text

catVars == <<all_keys, field_groups>>
parseVars == <<mapping_text, src_lines, parse_result>>
writeVars ==
    <<client, mapping_dict, mapping2_dict, mapping_type, data, flat_data,
      cells_to_update, resolved, written_count, open_calls, batch_log,
      batch_failed, cell_log, fb_idx, write_result>>
fileVars ==
    <<remote, tmp, stage_calls, delete_calls, unlink_calls, uploaded_files,
      tmp_paths>>
phaseVars == <<phase, attempt, master_result, phase_status, phase_keys, used_in>>
exVars == <<file_contents, up_idx, polls, fileVars, phaseVars>>
rowVars ==
    <<ws_exists, headers, date_str, time_str, place, participants, appended,
      row_result>>
apiVars ==
    <<endpoint, request, s3_client, in_store, fetched, analysis, response,
      uuids, tasks, drafts, bg_status>>
retryVars == <<backend, calls, sleeps, retry_result>>
sheetVars ==
    <<configured, append_result, create_result, creation, writes, new_docs>>
promptVars == <<fields, prompt>>
restVars == <<rowVars, apiVars, retryVars, sheetVars, promptVars>>
vars == <<pc, catVars, parseVars, writeVars, exVars, restVars>>

----------------------------------------------------------------------------
(* Python string primitives over code-point sequences *)

\* `sub in s`
Contains(sub, s) ==
    \E i \in 0..(Len(s) - Len(sub)) : SubSeq(s, i + 1, i + Len(sub)) = sub

Range(s) == {s[i] : i \in 1..Len(s)}

SetMin(S) == CHOOSE x \in S : \A y \in S : x <= y

----------------------------------------------------------------------------
(* AIService._categorize_fields *)

\* ai_service.py:209  (14 keywords, as sequences of Unicode code points)
g1_keywords ==
    << <<20316, 25104>>,
       <<21463, 20184>>,
       <<30456, 35527, 32773>>,
       <<21033, 29992, 32773>>,
       <<23478, 26063>>,
       <<19990, 24111>>,
       <<20303, 23621>>,
       <<35373, 20633>>,
       <<24180, 37329>>,
       <<20445, 38522>>,
       <<35469, 23450>>,
       <<38556, 23475, 39640, 40802, 32773>>,
       <<35469, 30693, 30151, 39640, 40802, 32773>>,
       <<34987, 20445, 38522, 32773>> >>
\* ai_service.py:211  (10 keywords, as sequences of Unicode code points)
g2_keywords ==
    << <<32076, 32239>>,
       <<25644, 36865>>,
       <<12371, 12428, 12414, 12391, 12398, 29983, 27963>>,
       <<29983, 27963, 12522, 12474, 12512>>,
       <<20581, 24247>>,
       <<30149, 21517>>,
       <<34220>>,
       <<21463, 35386>>,
       <<20027, 27835, 21307>>,
       <<21307, 30274, 27231, 38306>> >>
\* ai_service.py:213  (18 keywords, as sequences of Unicode code points)
g3_keywords ==
    << <<35222, 21147>>,
       <<32884, 21147>>,
       <<21475, 33108>>,
       <<26628, 39178>>,
       <<36523, 38263>>,
       <<20307, 37325>>,
       <<34880, 22311>>,
       <<12450, 12524, 12523, 12462, 12540>>,
       <<40635, 30202>>,
       <<25304, 32302>>,
       <<30171, 12415>>,
       <<35109, 30241>>,
       <<35469, 30693, 27231, 33021>>,
       <<34892, 21205, 38556, 23475>>,
       <<31934, 31070>>,
       <<38459, 23475, 35201, 22240>>,
       <<20307, 28201>>,
       <<33032, 25293>> >>
\* ai_service.py:215  (13 keywords, as sequences of Unicode code points)
g4_keywords ==
    << <<31227, 21205>>,
       <<39135, 20107>>,
       <<27700, 20998>>,
       <<25490, 27844>>,
       <<20837, 28020>>,
       <<26356, 34915>>,
       <<25972, 23481>>,
       <<23517, 36820, 12426>>,
       <<36215, 12365, 19978, 12364, 12426>>,
       <<31435, 12385, 19978, 12364, 12426>>,
       <<24231, 20301>>,
       <<31435, 20301>>,
       <<31227, 20055>> >>
\* ai_service.py:218  (10 keywords, as sequences of Unicode code points)
g5_keywords ==
    << <<26381, 34220>>,
       <<35519, 29702>>,
       <<25475, 38500>>,
       <<27927, 28655>>,
       <<36023, 29289>>,
       <<29289, 21697>>,
       <<37329, 37549>>,
       <<12467, 12511, 12517, 12491, 12465, 12540, 12471, 12519, 12531>>,
       <<24847, 24605>>,
       <<25351, 31034>> >>
\* ai_service.py:220  (4 keywords, as sequences of Unicode code points)
g6_keywords ==
    << <<21033, 29992, 12375, 12390, 12356, 12427, 25903, 25588>>,
       <<31038, 20250, 36039, 28304>>,
       <<12501, 12457, 12540, 12510, 12523>>,
       <<12452, 12531, 12501, 12457, 12540, 12510, 12523>> >>
\* ai_service.py:223  (13 keywords, as sequences of Unicode code points)
g7_keywords ==
    << <<31038, 20250>>,
       <<24441, 21106>>,
       <<20171, 35703, 21147>>,
       <<25903, 25588>>,
       <<12469, 12540, 12499, 12473>>,
       <<30041, 24847>>,
       <<29872, 22659, 22240, 23376>>,
       <<20491, 20154, 22240, 23376>>,
       <<35211, 36890, 12375>>,
       <<20303, 23429, 25913, 20462>>,
       <<31119, 31049, 29992, 20855>>,
       <<31038, 20250, 20445, 38556>>,
       <<21442, 21152>> >>


\* any(kw in key for kw in keywords): the inner for/break of each check
MatchesAny(keywords, key) ==
    \E j \in 1..Len(keywords) : Contains(keywords[j], key)

\* Drift of the precedence order: the groups tested in their natural order.
GroupOfNaturalOrder(key) ==
    IF MatchesAny(g1_keywords, key) THEN 1
    ELSE IF MatchesAny(g2_keywords, key) THEN 2
    ELSE IF MatchesAny(g3_keywords, key) THEN 3
    ELSE IF MatchesAny(g4_keywords, key) THEN 4
    ELSE IF MatchesAny(g5_keywords, key) THEN 5
    ELSE IF MatchesAny(g6_keywords, key) THEN 6
    ELSE 7

\* The group one key is appended to: G6, G7, G5, G4, G3, G2, G1 are tested in
\* this order, each match ends the iteration (`continue`), default groups[6].
GroupOf(key) ==
    IF MatchesAny(g6_keywords, key) THEN 6
    ELSE IF MatchesAny(g7_keywords, key) THEN 7
    ELSE IF MatchesAny(g5_keywords, key) THEN 5
    ELSE IF MatchesAny(g4_keywords, key) THEN 4
    ELSE IF MatchesAny(g3_keywords, key) THEN 3
    ELSE IF MatchesAny(g2_keywords, key) THEN 2
    ELSE IF MatchesAny(g1_keywords, key) THEN 1
    ELSE 7

KeywordsOf(g) ==
    CASE g = 1 -> g1_keywords [] g = 2 -> g2_keywords [] g = 3 -> g3_keywords
      [] g = 4 -> g4_keywords [] g = 5 -> g5_keywords [] g = 6 -> g6_keywords
      [] g = 7 -> g7_keywords

\* A loop body that has lost its `continue`: the key is appended to every
\* group one of whose keywords it contains.
CatStepNoContinue(groups, key) ==
    [g \in 1..7 |->
        IF MatchesAny(KeywordsOf(g), key)
           \/ (g = 7 /\ \A h \in 1..7 : ~MatchesAny(KeywordsOf(h), key))
        THEN Append(groups[g], key) ELSE groups[g]]

\* One iteration of `for key in all_keys`
CatStep(groups, key) ==
    [groups EXCEPT ![GroupOf(key)] = Append(@, key)]

RECURSIVE CatLoop(_, _)
CatLoop(keys, groups) ==
    IF keys = <<>> THEN groups
    ELSE CatLoop(Tail(keys), CatStep(groups, Head(keys)))

EmptyGroups == [g \in 1..7 |-> <<>>]

categorize_fields(keys) == CatLoop(keys, EmptyGroups)

----------------------------------------------------------------------------
(* MappingParser.parse_mapping *)

NL == 10            \* '\n'
SP == 32            \* ' '
HWComma == 44       \* ','
Dash == 45          \* '-'
FWComma == 12289    \* full-width comma
FWSpace == 12288    \* full-width space
FWLParen == 65288   \* full-width '('
FWRParen == 65289   \* full-width ')'
FWColon == 65306    \* full-width ':'

\* Characters str.strip() removes (those that occur in the inputs).
Whitespace == {9, NL, 11, 12, 13, SP, FWSpace}

\* [A-Z] of a str pattern
IsUpperOrLower(c) == (c >= 65 /\ c <= 90) \/ (c >= 97 /\ c <= 122)

IsUpper(c) == c \in 65..90
\* \d of a str pattern: ASCII and full-width decimal digits
IsDigit(c) == c \in (48..57) \cup (65296..65305)

RECURSIVE LStrip(_)
LStrip(s) == IF s # <<>> /\ Head(s) \in Whitespace THEN LStrip(Tail(s)) ELSE s

RECURSIVE RStrip(_)
RStrip(s) ==
    IF s # <<>> /\ s[Len(s)] \in Whitespace THEN RStrip(SubSeq(s, 1, Len(s) - 1))
    ELSE s

\* str.strip()
Strip(s) == RStrip(LStrip(s))

RECURSIVE SplitLoop(_, _, _, _, _)
SplitLoop(s, seps, i, cur, acc) ==
    IF i > Len(s) THEN Append(acc, cur)
    ELSE IF s[i] \in seps THEN SplitLoop(s, seps, i + 1, <<>>, Append(acc, cur))
    ELSE SplitLoop(s, seps, i + 1, Append(cur, s[i]), acc)

\* s.split(c) and re.split('[..]', s) for single-character separators
Split(s, seps) == SplitLoop(s, seps, 1, <<>>, <<>>)

RECURSIVE Join(_, _)
\* sep.join(parts)
Join(parts, sep) ==
    IF parts = <<>> THEN <<>>
    ELSE IF Len(parts) = 1 THEN parts[1]
    ELSE parts[1] \o <<sep>> \o Join(Tail(parts), sep)

\* End of the run of characters of class P that starts at p.
UpperRunEnd(s, p) ==
    CHOOSE q \in p..Len(s) :
        /\ \A k \in p..q : IsUpper(s[k])
        /\ (q = Len(s) \/ ~IsUpper(s[q + 1]))

DigitRunEnd(s, p) ==
    CHOOSE q \in p..Len(s) :
        /\ \A k \in p..q : IsDigit(s[k])
        /\ (q = Len(s) \/ ~IsDigit(s[q + 1]))

\* Start positions at which ([A-Z]+\d+) matches.
CellStarts(s) ==
    {p \in 1..Len(s) :
        /\ IsUpper(s[p])
        /\ UpperRunEnd(s, p) < Len(s)
        /\ IsDigit(s[UpperRunEnd(s, p) + 1])}

\* re.search(r'([A-Z]+\d+)', s): [found, start, end] of the leftmost match
CellSearch(s) ==
    IF CellStarts(s) = {} THEN [found |-> FALSE, start |-> 0, end |-> 0]
    ELSE LET p == SetMin(CellStarts(s))
         IN [found |-> TRUE, start |-> p,
             end |-> DigitRunEnd(s, UpperRunEnd(s, p) + 1)]

\* Start positions at which the pattern of the inline options matches: a left
\* parenthesis, at least one character, a right parenthesis.
OptionStarts(s) ==
    {p \in 1..Len(s) :
        s[p] = FWLParen /\ \E q \in (p + 2)..Len(s) : s[q] = FWRParen}

\* re.search of the parenthesised group: [found, group], group the shortest
OptionsSearch(s) ==
    IF OptionStarts(s) = {} THEN [found |-> FALSE, group |-> <<>>]
    ELSE LET p == SetMin(OptionStarts(s))
             q == SetMin({q \in (p + 2)..Len(s) : s[q] = FWRParen})
         IN [found |-> TRUE, group |-> SubSeq(s, p + 1, q - 1)]

RECURSIVE StripAll(_)
StripAll(toks) ==
    IF toks = <<>> THEN <<>> ELSE <<Strip(Head(toks))>> \o StripAll(Tail(toks))

NonEmpty(t) == t # <<>>

\* The option split with the `if opt.strip()` filter lost.
SplitOptionsKeepEmpty(options_str) ==
    StripAll(Split(options_str, {FWComma, HWComma}))

\* [opt.strip() for opt in re.split(r'[..]', options_str) if opt.strip()]
SplitOptions(options_str) ==
    SelectSeq(StripAll(Split(options_str, {FWComma, HWComma})), NonEmpty)

\* mapping_dict[item_name] = {...}: an insertion-ordered dict as a sequence
\* of entries; an existing key keeps its position.
DictPut(d, entry) ==
    IF \E k \in 1..Len(d) : d[k].name = entry.name
    THEN [k \in 1..Len(d) |-> IF d[k].name = entry.name THEN entry ELSE d[k]]
    ELSE Append(d, entry)

\* The name taken up to the last separator instead of the first.
ItemNameLastColon(line) ==
    LET parts == Split(line, {FWColon})
    IN Strip(Join(SubSeq(parts, 1, Len(parts) - 1), FWColon))

\* item_name = parts[0].strip()
ItemName(line) == Strip(Split(line, {FWColon})[1])

\* cell_and_options = "：".join(parts[1:]).strip()
CellAndOptions(line) == Strip(Join(Tail(Split(line, {FWColon})), FWColon))

RECURSIVE ParseLoop(_, _, _)
\* The while loop, lines[i] being the line at index i - 1 of the code.
ParseLoop(lines, i, result) ==
    IF i > Len(lines) THEN result
    ELSE
    LET line == Strip(lines[i]) IN
    IF line = <<>> \/ line[1] = Dash THEN ParseLoop(lines, i + 1, result)
    ELSE IF ~(FWColon \in Range(line)) THEN ParseLoop(lines, i + 1, result)
    ELSE
    LET item_name == ItemName(line)
        cell_and_options == CellAndOptions(line)
        cell_match == CellSearch(cell_and_options)
    IN
    IF ~cell_match.found THEN ParseLoop(lines, i + 1, result)
    ELSE
    LET cell == SubSeq(cell_and_options, cell_match.start, cell_match.end)
        options_part == SubSeq(cell_and_options, cell_match.end + 1,
                               Len(cell_and_options))
        options_match == OptionsSearch(options_part)
        inline == IF options_match.found THEN SplitOptions(options_match.group)
                  ELSE <<>>
        next_line == IF i + 1 <= Len(lines) THEN Strip(lines[i + 1]) ELSE <<>>
        lookahead == /\ inline = <<>>
                     /\ i + 1 <= Len(lines)
                     /\ next_line # <<>>
                     /\ next_line[1] = FWLParen
                     /\ next_line[Len(next_line)] = FWRParen
        options == IF lookahead
                   THEN SplitOptions(SubSeq(next_line, 2, Len(next_line) - 1))
                   ELSE inline
    IN ParseLoop(lines, IF lookahead THEN i + 2 ELSE i + 1,
                 DictPut(result,
                         [name |-> item_name, cell |-> cell, options |-> options]))

\* parse_mapping(mapping_text)
parse_mapping(text) ==
    ParseLoop(Split(Strip(text), {NL}), 1, <<>>)

----------------------------------------------------------------------------
(* SheetsService._flatten_data and the cell resolution of write_data *)

\* The placeholder of an unfilled field: a full-width '(' , the two
\* characters of "blank", a full-width ')'.
BlankSentinel == <<FWLParen, 31354, 30333, FWRParen>>

\* Python values of a record: a str (s, code points), None, an int (n) or a
\* dict (items, in insertion order).
PyStr(s) == [t |-> "str", s |-> s, n |-> 0, items |-> <<>>]
PyNone == [t |-> "none", s |-> <<>>, n |-> 0, items |-> <<>>]
PyInt(n) == [t |-> "int", s |-> <<>>, n |-> n, items |-> <<>>]
PyDict(items) == [t |-> "dict", s |-> <<>>, n |-> 0, items |-> items]

\* bool(value) of a value that is not a dict
Truthy(v) ==
    CASE v.t = "str" -> v.s # <<>>
      [] v.t = "int" -> v.n # 0
      [] OTHER -> FALSE

\* str(value) of a str or of an int of one digit
StrOf(v) == IF v.t = "int" THEN <<48 + v.n>> ELSE v.s

\* flat[key] = value of an insertion-ordered dict
FlatPut(flat, key, value) ==
    IF \E k \in 1..Len(flat) : flat[k].key = key
    THEN [k \in 1..Len(flat) |->
            IF flat[k].key = key THEN [key |-> key, value |-> value] ELSE flat[k]]
    ELSE Append(flat, [key |-> key, value |-> value])

RECURSIVE FlatUpdate(_, _)
\* flat.update(nested)
FlatUpdate(flat, nested) ==
    IF nested = <<>> THEN flat
    ELSE FlatUpdate(FlatPut(flat, Head(nested).key, Head(nested).value),
                    Tail(nested))

RECURSIVE FlattenLoop(_, _)
\* for key, value in data.items(): ... (the prefix argument is never used for
\* the keys of the result)
FlattenLoop(items, flat) ==
    IF items = <<>> THEN flat
    ELSE LET key == Head(items).key
             value == Head(items).value
         IN IF value.t = "dict"
            THEN FlattenLoop(Tail(items),
                             FlatUpdate(flat, FlattenLoop(value.items, <<>>)))
            ELSE FlattenLoop(Tail(items),
                             FlatPut(flat, key,
                                     IF Truthy(value) THEN StrOf(value) ELSE <<>>))

\* _flatten_data(data)
flatten_data(items) == FlattenLoop(items, <<>>)

HasKey(flat, key) == \E k \in 1..Len(flat) : flat[k].key = key

Lookup(flat, key) == flat[CHOOSE k \in 1..Len(flat) : flat[k].key = key].value

\* Indices of the flattened keys related to item_name by containment.
ContainMatches(item_name, flat) ==
    {k \in 1..Len(flat) :
        Contains(item_name, flat[k].key) \/ Contains(flat[k].key, item_name)}

NotFound == [found |-> FALSE, value |-> <<>>, via |-> "none"]

\* The lookup with the two branches swapped: containment is tried first.
ResolveContainFirst(item_name, flat) ==
    IF ContainMatches(item_name, flat) # {}
    THEN [found |-> TRUE, value |-> flat[SetMin(ContainMatches(item_name, flat))].value,
          via |-> "contain"]
    ELSE IF HasKey(flat, item_name)
    THEN [found |-> TRUE, value |-> Lookup(flat, item_name), via |-> "exact"]
    ELSE NotFound

\* The lookup going on past a candidate that cannot be queued: the exact
\* key, then the containment matches in order, the first with a text other
\* than the placeholder.
ResolveFirstNonEmpty(item_name, flat) ==
    LET usable == {k \in ContainMatches(item_name, flat) :
                      flat[k].value \notin {<<>>, BlankSentinel}}
    IN IF HasKey(flat, item_name) /\ Lookup(flat, item_name) \notin {<<>>, BlankSentinel}
       THEN [found |-> TRUE, value |-> Lookup(flat, item_name), via |-> "exact"]
       ELSE IF usable # {}
       THEN [found |-> TRUE, value |-> flat[SetMin(usable)].value, via |-> "contain"]
       ELSE IF HasKey(flat, item_name)
       THEN [found |-> TRUE, value |-> Lookup(flat, item_name), via |-> "exact"]
       ELSE IF ContainMatches(item_name, flat) # {}
       THEN [found |-> TRUE,
             value |-> flat[SetMin(ContainMatches(item_name, flat))].value,
             via |-> "contain"]
       ELSE NotFound

\* value = None; if item_name in flat_data: ... else: for ...: ... break
\* (found = FALSE is None)
Resolve(item_name, flat) ==
    IF HasKey(flat, item_name)
    THEN [found |-> TRUE, value |-> Lookup(flat, item_name), via |-> "exact"]
    ELSE IF ContainMatches(item_name, flat) # {}
    THEN [found |-> TRUE, value |-> flat[SetMin(ContainMatches(item_name, flat))].value,
          via |-> "contain"]
    ELSE NotFound

\* The test without its comparison with the placeholder.
QueueableAnyText(r) == r.found /\ r.value # <<>>

\* if value and value != BlankSentinel
Queueable(r) == r.found /\ r.value # <<>> /\ r.value # BlankSentinel

RECURSIVE ResolveLoop(_, _, _, _)
\* for item_name, mapping_info in mapping.items(): the queue cells_to_update
\* and, beside it, what every field with a cell was resolved to.
ResolveLoop(entries, flat, queue, log) ==
    IF entries = <<>> THEN [cells_to_update |-> queue, resolved |-> log]
    ELSE LET e == Head(entries)
             r == Resolve(e.name, flat)
         IN IF e.cell = <<>> THEN ResolveLoop(Tail(entries), flat, queue, log)
            ELSE ResolveLoop(
                    Tail(entries), flat,
                    IF Queueable(r)
                    THEN Append(queue, [cell |-> e.cell, value |-> r.value])
                    ELSE queue,
                    Append(log, [name |-> e.name, cell |-> e.cell,
                                 found |-> r.found, value |-> r.value,
                                 via |-> r.via]))

\* The count of the cells that were written: all of the queue when the batch
\* call returned, else the update_acell calls that returned.
ReturnedCountWritten(queued, log) ==
    IF log = <<>> THEN queued
    ELSE Cardinality({k \in 1..Len(log) : log[k].ok})

\* return written_count: the counter of the resolution loop
ReturnedCount(queued, log) == queued

\* The fallback loop giving up at the first cell that fails.
AfterCellFailureStop(i, n) == n + 1

\* except Exception as e2: print(...) -- the loop goes on with the next cell
AfterCellFailure(i, n) == i + 1

NotLoaded == [loaded |-> FALSE, entries |-> <<>>]

----------------------------------------------------------------------------
(* AIService: staging, the backend call and the parse of its answer *)

\* for attempt in range(retries), retries=3
retries == 3

\* The JSON value a response text denotes: an object (d: its members), an
\* array (len: its length; first: "dict" or "scalar", what result[0] is) or
\* any other value.
JsonDict(d) == [t |-> "dict", d |-> d, len |-> 0, first |-> "none"]
JsonList(len, first, d) == [t |-> "list", d |-> d, len |-> len, first |-> first]
JsonScalar == [t |-> "scalar", d |-> <<>>, len |-> 0, first |-> "none"]

\* A response text: the value it denotes, whether it is wrapped in a code
\* fence, and its syntax: "valid", "newlines" (line breaks inside, which
\* json.loads rejects and _fix_json_string removes) or "broken".
ResponseText(value, fenced, syntax) ==
    [value |-> value, fenced |-> fenced, syntax |-> syntax]

\* _clean_json_response: the fence is cut off, the JSON inside is kept
clean_json_response(text) == [text EXCEPT !.fenced = FALSE]

\* _fix_json_string: the lines are stripped and joined with blanks
fix_json_string(text) ==
    [text EXCEPT !.syntax = IF @ = "newlines" THEN "valid" ELSE @]

\* json.loads: [raised, value]
JsonLoads(text) ==
    IF text.syntax = "valid" /\ ~text.fenced THEN [raised |-> FALSE, value |-> text.value]
    ELSE [raised |-> TRUE, value |-> JsonScalar]

\* _parse_json_result: [raised, value]
parse_json_result(text) ==
    LET cleaned == clean_json_response(text)
        first == JsonLoads(cleaned)
        loaded == IF first.raised THEN JsonLoads(fix_json_string(cleaned))
                  ELSE first
        result == loaded.value
    IN IF loaded.raised THEN loaded
       ELSE IF result.t = "list" /\ result.len > 0
       THEN [raised |-> FALSE,
             value |-> IF result.first = "dict" THEN JsonDict(result.d)
                       ELSE JsonScalar]
       ELSE loaded

\* master_result.update(partial_result)
DictUpdate(master, partial) ==
    [k \in DOMAIN master \cup DOMAIN partial |->
        IF k \in DOMAIN partial THEN partial[k] ELSE master[k]]

EmptyDict == [k \in {} |-> "v"]

\* The state of the handle of file f: none before upload_file has returned
\* it, released once delete_file has been called on it.
HandleState(f) ==
    IF delete_calls[f] > 0 THEN "released"
    ELSE IF remote[f] # "none" THEN "staged"
    ELSE "unstaged"

Bump(count, fs) ==
    [f \in DOMAIN count |-> IF f \in fs THEN count[f] + 1 ELSE count[f]]

\* genai.delete_file on each of fs, failing for those in del_fail
Deleted(rem, fs, del_fail) ==
    [f \in DOMAIN rem |->
        IF f \in fs /\ f \notin del_fail THEN "deleted" ELSE rem[f]]

\* os.unlink on the temporary file of each of fs, failing for those in
\* unl_fail (a file that is gone stays gone)
Unlinked(t, fs, unl_fail) ==
    [f \in DOMAIN t |->
        IF f \in fs
        THEN (IF f \in unl_fail
              THEN (IF t[f] = "removed" THEN "removed" ELSE "exists")
              ELSE "removed")
        ELSE t[f]]

\* A release loop without the try statement around each call: the first
\* call that fails ends the loop and the error leaves _cleanup_files.
ReleaseUntilFailure(seq, fail) ==
    [attempted |-> {seq[i] : i \in {j \in 1..Len(seq) :
                                      \A k \in 1..(j - 1) : seq[k] \notin fail}},
     raised |-> Range(seq) \cap fail # {}]

\* for x in seq: try: release(x) except: pass -- every element is attempted
\* and no error leaves the loop
Release(seq, fail) == [attempted |-> Range(seq), raised |-> FALSE]

\* _cleanup_files(uploaded_files, tmp_paths): delete_file and os.unlink are
\* called once for every listed file; a call that fails is swallowed.
Cleanup(files, paths, del_fail, unl_fail) ==
    /\ delete_calls' = Bump(delete_calls, Release(files, del_fail).attempted)
    /\ remote' = Deleted(remote, Release(files, del_fail).attempted, del_fail)
    /\ unlink_calls' = Bump(unlink_calls, Release(paths, unl_fail).attempted)
    /\ tmp' = Unlinked(tmp, Release(paths, unl_fail).attempted, unl_fail)

\* The except clause of _upload_to_gemini for the file f being staged
\* (os.unlink(tmp_path), nothing else) followed by the except clause of
\* _upload_files_to_gemini (the cleanup of the files staged before f).
AbortUpload(f, del_fail, unl_fail) ==
    /\ delete_calls' = Bump(delete_calls, Range(uploaded_files))
    /\ remote' = Deleted(remote, Range(uploaded_files), del_fail)
    /\ unlink_calls' = Bump(unlink_calls, Range(tmp_paths) \cup {f})
    /\ tmp' = Unlinked(tmp, Range(tmp_paths) \cup {f}, unl_fail)

----------------------------------------------------------------------------
(* The state of a component no call of which is in progress *)

CatIdle == all_keys = <<>> /\ field_groups = EmptyGroups

ParseIdle == mapping_text = <<>> /\ src_lines = <<>> /\ parse_result = <<>>

ExtractIdle ==
    /\ file_contents = <<>>
    /\ up_idx = 0
    /\ polls = 0
    /\ remote = <<>>
    /\ tmp = <<>>
    /\ stage_calls = <<>>
    /\ delete_calls = <<>>
    /\ unlink_calls = <<>>
    /\ uploaded_files = <<>>
    /\ tmp_paths = <<>>
    /\ phase = 0
    /\ attempt = 0
    /\ master_result = <<>>
    /\ phase_status = [i \in 1..7 |-> "pending"]
    /\ phase_keys = [i \in 1..7 |-> {}]
    /\ used_in = <<>>

RowIdle ==
    /\ ws_exists = FALSE
    /\ headers = <<>>
    /\ date_str = <<>>
    /\ time_str = <<>>
    /\ place = <<>>
    /\ participants = <<>>
    /\ appended = <<>>
    /\ row_result = [kind |-> "none"]

NoRetryResult == [kind |-> "none", error |-> <<>>]

RetryIdle ==
    /\ backend = <<>>
    /\ calls = 0
    /\ sleeps = <<>>
    /\ retry_result = NoRetryResult

ApiIdle ==
    /\ endpoint = ""
    /\ request = <<>>
    /\ s3_client = FALSE
    /\ in_store = {}
    /\ fetched = <<>>
    /\ analysis = "none"
    /\ response = <<>>
    /\ uuids = 0
    /\ tasks = <<>>
    /\ drafts = {}
    /\ bg_status = <<>>

SheetIdle ==
    /\ configured = {}
    /\ append_result = <<>>
    /\ create_result = <<>>
    /\ creation = "none"
    /\ writes = <<>>
    /\ new_docs = {}

PromptIdle == fields = <<>> /\ prompt = <<>>

RestIdle == RowIdle /\ ApiIdle /\ RetryIdle /\ SheetIdle /\ PromptIdle

NoResult == [kind |-> "none", count |-> 0, error |-> ""]

WriteIdle ==
    /\ client = FALSE
    /\ mapping_type = ""
    /\ mapping_dict = NotLoaded
    /\ mapping2_dict = NotLoaded
    /\ data = <<>>
    /\ flat_data = <<>>
    /\ cells_to_update = <<>>
    /\ resolved = <<>>
    /\ written_count = 0
    /\ open_calls = 0
    /\ batch_log = <<>>
    /\ batch_failed = FALSE
    /\ cell_log = <<>>
    /\ fb_idx = 0
    /\ write_result = NoResult

----------------------------------------------------------------------------
(* Inputs of the categorizer: field names as they occur in the assessment  *)
(* form, chosen so that every pair of neighbouring precedence levels meets *)
(* in one name.                                                            *)

MaxKeys == 2

N_support_in_use == <<21033, 29992, 12375, 12390, 12356, 12427, 25903, 25588>> \* G6 keyword, holds a G7 keyword
N_social_resource == <<31038, 20250, 36039, 28304>>            \* G6 keyword, holds a G7 keyword
N_user_participation == <<21033, 29992, 32773, 12398, 31038, 20250, 21442, 21152>> \* G1 and G7
N_insurance_service == <<20171, 35703, 20445, 38522, 12469, 12540, 12499, 12473>> \* G1 and G7
N_medication == <<26381, 34220>>                               \* G5 keyword, holds a G2 keyword
N_meal_cooking == <<39135, 20107, 12398, 35519, 29702>>        \* G4 and G5
N_oral_meal == <<21475, 33108, 12392, 39135, 20107>>           \* G3 and G4
N_health_nutrition == <<20581, 24247, 12392, 26628, 39178>>    \* G2 and G3
N_family_health == <<23478, 26063, 12398, 20581, 24247>>       \* G1 and G2
N_family == <<23478, 26063>>                                   \* G1 only
N_name == <<27663, 21517>>                                     \* no keyword
N_remarks == <<20633, 32771>>                                  \* no keyword

CatNames ==
    { N_support_in_use, N_social_resource, N_user_participation,
      N_insurance_service, N_medication, N_meal_cooking, N_oral_meal,
      N_health_nutrition, N_family_health, N_family, N_name, N_remarks }

SeqsUpTo(S, n) == UNION {[1..k -> S] : k \in 0..n}

InitCat ==
    /\ pc = "cat_call"
    /\ all_keys \in SeqsUpTo(CatNames, MaxKeys)
    /\ field_groups = EmptyGroups
    /\ ParseIdle
    /\ WriteIdle
    /\ ExtractIdle
    /\ RestIdle

\* field_groups = self._categorize_fields(all_keys)
CategorizeFields ==
    /\ pc = "cat_call"
    /\ field_groups' = categorize_fields(all_keys)
    /\ pc' = "cat_done"
    /\ UNCHANGED <<all_keys, parseVars, writeVars, exVars, restVars>>

NextCat == CategorizeFields

SpecCat == InitCat /\ [][NextCat]_vars

----------------------------------------------------------------------------
(* Inputs of the parser: mapping texts of up to MaxLines lines.  A line is *)
(* either built from a name, a cell and a list of option tokens in the     *)
(* form name:CELL(opt1,opt2,...) with the full-width separators, or one of *)
(* the other lines a mapping file holds.                                   *)

MaxLines == 2

T_visit == <<26469, 25152>>                 \* an option
T_phone == <<38651, 35441>>                 \* an option
T_other_padded == <<SP, 20182, FWSpace>>    \* an option with blanks around it
T_with_colon == <<20182, FWColon, 20182>>   \* an option holding the separator
T_blank == <<SP>>                           \* a token of blanks only

WfNames ==
    { N_name,                                   \* a plain name
      <<SP, 88, 49, 30456, 35527, SP>> }        \* padded, and holding "X1"

WfCells == { <<65, 49>>, <<66, 88, 50, 50>> }   \* "A1", "BX22"

WfOptLists ==
    { <<T_visit>>,
      <<T_visit, T_phone>>,
      <<T_other_padded, <<>>, T_phone>>,
      <<T_with_colon, T_visit>>,
      <<T_blank, <<>>>> }

WfText(name, cell, opts) ==
    name \o <<FWColon>> \o cell \o <<FWLParen>> \o Join(opts, FWComma)
         \o <<FWRParen>>

WfLines ==
    { [wf |-> TRUE, name |-> n, cell |-> c, opts |-> o, text |-> WfText(n, c, o)] :
        n \in WfNames, c \in WfCells, o \in WfOptLists }

Other(text) ==
    [wf |-> FALSE, name |-> <<>>, cell |-> <<>>, opts |-> <<>>, text |-> text]

L_blank == Other(<<SP>>)
L_separator == Other(<<Dash, Dash, Dash>>)
L_heading == Other(<<20633, 32771>>)                             \* no separator
L_no_cell == Other(<<20633, 32771, FWColon, 12394, 12375>>)      \* separator, no cell
L_lower_cell == Other(<<20633, 32771, FWColon, 97, 49>>)         \* separator, "a1"
L_plain == Other(<<20303, 25152, FWColon, 67, 51>>)              \* name:C3, no options
L_options == Other(<<FWLParen>> \o T_visit \o <<FWComma>> \o T_phone \o <<FWRParen>>)
L_cell_in_name == Other(<<88, 49, FWColon, 12394, 12375>>)       \* "X1", separator, no cell
L_paren_colon == Other(<<FWLParen>> \o T_with_colon \o <<FWRParen>>)  \* separator in parentheses

OtherLines ==
    { L_blank, L_separator, L_heading, L_no_cell, L_lower_cell, L_plain, L_options,
      L_cell_in_name, L_paren_colon }

LineLib == WfLines \cup OtherLines

RECURSIVE Texts(_)
Texts(ls) == IF ls = <<>> THEN <<>> ELSE <<Head(ls).text>> \o Texts(Tail(ls))

InitParse ==
    /\ pc = "parse_call"
    /\ src_lines \in UNION {[1..k -> LineLib] : k \in 1..MaxLines}
    /\ mapping_text = Join(Texts(src_lines), NL)
    /\ parse_result = <<>>
    /\ CatIdle
    /\ WriteIdle
    /\ ExtractIdle
    /\ RestIdle

\* MappingParser.parse_mapping(mapping_text)
ParseMapping ==
    /\ pc = "parse_call"
    /\ parse_result' = parse_mapping(mapping_text)
    /\ pc' = "parse_done"
    /\ UNCHANGED <<mapping_text, src_lines, catVars, writeVars, exVars, restVars>>

NextParse == ParseMapping

SpecParse == InitParse /\ [][NextParse]_vars

----------------------------------------------------------------------------
(* Inputs of write_data: the loaded mappings, the record to write          *)

MaxDataItems == 2

K_name == N_name                                    \* a field name
K_user_name == <<21033, 29992, 32773>> \o N_name    \* holds K_name
K_shi == <<27663>>                                  \* held by K_name
K_address == <<20303, 25152>>                       \* unrelated to the others

V_tanaka == <<30000, 20013>>
V_tokyo == <<26481, 20140>>

CellA1 == <<65, 49>>
CellB2 == <<66, 50>>
CellC3 == <<67, 51>>

\* mapping.txt as _load_mappings reads it: name:A1 / address:B2(opt,opt)
MappingTextA ==
    K_name \o <<FWColon>> \o CellA1 \o <<NL>>
        \o K_address \o <<FWColon>> \o CellB2
        \o <<FWLParen>> \o T_visit \o <<FWComma>> \o T_phone \o <<FWRParen>>

\* user name:C3 / name:A1 / address:B2
MappingTextB ==
    K_user_name \o <<FWColon>> \o CellC3 \o <<NL>>
        \o K_name \o <<FWColon>> \o CellA1 \o <<NL>>
        \o K_address \o <<FWColon>> \o CellB2

\* self.mapping_dict = MappingParser.parse_mapping(mapping_text)
Loaded(text) == [loaded |-> TRUE, entries |-> parse_mapping(text)]

\* (mapping_type, self.mapping_dict, self.mapping2_dict) after __init__:
\* a file may be missing (None), empty ({}) or hold entries.
WriteConfigs ==
    { <<"assessment", Loaded(MappingTextA), NotLoaded>>,
      <<"assessment", Loaded(MappingTextB), Loaded(MappingTextA)>>,
      <<"assessment", NotLoaded, Loaded(MappingTextA)>>,
      <<"assessment", Loaded(<<>>), NotLoaded>>,
      <<"assessment2", Loaded(MappingTextA), Loaded(MappingTextB)>>,
      <<"assessment2", Loaded(MappingTextA), NotLoaded>> }

DataKeys == {K_name, K_user_name, K_shi, K_address}

DataValues ==
    { PyStr(V_tanaka), PyStr(V_tokyo), PyStr(<<>>), PyStr(BlankSentinel),
      PyNone, PyInt(0),
      PyDict(<<[key |-> K_name, value |-> PyStr(V_tokyo)]>>) }

\* Records of up to MaxDataItems items with distinct keys.
DataRecords ==
    UNION { { d \in [1..k -> [key : DataKeys, value : DataValues]] :
                \A i, j \in 1..k : i # j => d[i].key # d[j].key } :
            k \in 0..MaxDataItems }

InitWrite ==
    /\ pc = "write_call"
    /\ client \in BOOLEAN
    /\ \E cfg \in WriteConfigs :
          /\ mapping_type = cfg[1]
          /\ mapping_dict = cfg[2]
          /\ mapping2_dict = cfg[3]
    /\ data \in DataRecords
    /\ flat_data = <<>>
    /\ cells_to_update = <<>>
    /\ resolved = <<>>
    /\ written_count = 0
    /\ open_calls = 0
    /\ batch_log = <<>>
    /\ batch_failed = FALSE
    /\ cell_log = <<>>
    /\ fb_idx = 0
    /\ write_result = NoResult
    /\ CatIdle
    /\ ParseIdle
    /\ ExtractIdle
    /\ RestIdle

\* mapping = self.mapping_dict if mapping_type == "assessment" else self.mapping2_dict
SelectedMapping ==
    IF mapping_type = "assessment" THEN mapping_dict ELSE mapping2_dict

\* The test as `mapping is None`: an empty dict passes it.
MappingIsNone == ~SelectedMapping.loaded

\* `not mapping`: None or an empty dict
MappingMissing == ~SelectedMapping.loaded \/ SelectedMapping.entries = <<>>

writeInputs == <<client, mapping_type, mapping_dict, mapping2_dict, data>>

Raise(error) ==
    /\ pc' = "write_raised"
    /\ write_result' = [kind |-> "error", count |-> 0, error |-> error]

\* if not self.client: raise ValueError(...)
WriteNoClient ==
    /\ pc = "write_call"
    /\ ~client
    /\ Raise("Google Sheets client not initialized")
    /\ UNCHANGED <<writeInputs, flat_data, cells_to_update, resolved,
                   written_count, open_calls, batch_log, batch_failed,
                   cell_log, fb_idx, catVars, parseVars, exVars, restVars>>

\* if not mapping: raise ValueError(...)
WriteNoMapping ==
    /\ pc = "write_call"
    /\ client
    /\ MappingMissing
    /\ Raise("Mapping not loaded")
    /\ UNCHANGED <<writeInputs, flat_data, cells_to_update, resolved,
                   written_count, open_calls, batch_log, batch_failed,
                   cell_log, fb_idx, catVars, parseVars, exVars, restVars>>

\* open_by_key or the worksheet lookup raises
WriteOpenFails ==
    /\ pc = "write_call"
    /\ client
    /\ ~MappingMissing
    /\ open_calls' = open_calls + 1
    /\ Raise("open failed")
    /\ UNCHANGED <<writeInputs, flat_data, cells_to_update, resolved,
                   written_count, batch_log, batch_failed, cell_log, fb_idx,
                   catVars, parseVars, exVars, restVars>>

\* The spreadsheet opens: flatten the record and resolve every mapping field
\* into cells_to_update; with nothing queued the call returns at once.
WriteResolve ==
    /\ pc = "write_call"
    /\ client
    /\ ~MappingMissing
    /\ open_calls' = open_calls + 1
    /\ flat_data' = flatten_data(data)
    /\ LET out == ResolveLoop(SelectedMapping.entries, flat_data', <<>>, <<>>)
       IN /\ cells_to_update' = out.cells_to_update
          /\ resolved' = out.resolved
          /\ written_count' = Len(out.cells_to_update)
          /\ IF out.cells_to_update # <<>>
             THEN pc' = "write_batch" /\ UNCHANGED write_result
             ELSE /\ pc' = "write_returned"
                  /\ write_result' = [kind |-> "count", count |-> 0, error |-> ""]
    /\ UNCHANGED <<writeInputs, batch_log, batch_failed, cell_log, fb_idx,
                   catVars, parseVars, exVars, restVars>>

\* updates = [{'range': cell, 'values': [[value]]} ...]
Updates(queue) ==
    [k \in 1..Len(queue) |-> [range |-> queue[k].cell, value |-> queue[k].value]]

\* worksheet.batch_update(updates), which succeeds or raises
WriteBatch ==
    /\ pc = "write_batch"
    /\ batch_log' = Append(batch_log, Updates(cells_to_update))
    /\ \E ok \in BOOLEAN :
          IF ok
          THEN /\ pc' = "write_returned"
               /\ write_result' = [kind |-> "count",
                                   count |-> ReturnedCount(written_count, cell_log),
                                   error |-> ""]
               /\ UNCHANGED <<batch_failed, fb_idx>>
          ELSE /\ pc' = "write_fallback"
               /\ batch_failed' = TRUE
               /\ fb_idx' = 1
               /\ UNCHANGED write_result
    /\ UNCHANGED <<writeInputs, flat_data, cells_to_update, resolved,
                   written_count, open_calls, cell_log, catVars, parseVars, exVars, restVars>>

\* One iteration of the fallback: worksheet.update_acell(cell, value), which
\* succeeds or raises; after the last cell the call returns written_count.
WriteCell ==
    /\ pc = "write_fallback"
    /\ fb_idx <= Len(cells_to_update)
    /\ \E ok \in BOOLEAN :
          /\ cell_log' = Append(cell_log,
                                [cell |-> cells_to_update[fb_idx].cell,
                                 value |-> cells_to_update[fb_idx].value,
                                 ok |-> ok])
          /\ fb_idx' = IF ok THEN fb_idx + 1
                       ELSE AfterCellFailure(fb_idx, Len(cells_to_update))
    /\ IF fb_idx' > Len(cells_to_update)
       THEN /\ pc' = "write_returned"
            /\ write_result' = [kind |-> "count",
                                count |-> ReturnedCount(written_count, cell_log'),
                                error |-> ""]
       ELSE UNCHANGED <<pc, write_result>>
    /\ UNCHANGED <<writeInputs, flat_data, cells_to_update, resolved,
                   written_count, open_calls, batch_log, batch_failed,
                   catVars, parseVars, exVars, restVars>>

NextWrite ==
    \/ WriteNoClient
    \/ WriteNoMapping
    \/ WriteOpenFails
    \/ WriteResolve
    \/ WriteBatch
    \/ WriteCell

SpecWrite == InitWrite /\ [][NextWrite]_vars

----------------------------------------------------------------------------
(* extract_assessment_info: inputs and steps *)

MaxFiles == 2
MaxPolls == 1

\* The keys of the two mapping files: none, or three names that fall into
\* the groups 1, 6 and 7.
ExtractKeyLists == { <<>>, <<N_family>>, <<N_family, N_support_in_use, N_name>> }

\* Values of the members of a response object: a string or null.
JsonMemberValues == {"v", "null"}

\* The objects a response may hold: any of the mapping's keys, each with any
\* value (the backend is not bound to the fields the prompt lists).
ResponseDicts == UNION {[S -> JsonMemberValues] : S \in SUBSET Range(all_keys)}

ResponseValues ==
    {JsonDict(d) : d \in ResponseDicts}
        \cup {JsonList(1, "dict", d) : d \in ResponseDicts}
        \cup {JsonList(0, "none", EmptyDict), JsonList(1, "scalar", EmptyDict),
              JsonScalar}

ResponseTexts ==
    {ResponseText(v, f, s) :
        v \in ResponseValues, f \in BOOLEAN, s \in {"valid", "newlines", "broken"}}

Files == 1..Len(file_contents)

InitExtract ==
    /\ pc = "ex_call"
    /\ all_keys \in ExtractKeyLists
    /\ field_groups = EmptyGroups
    /\ file_contents \in UNION {[1..n -> {"application/pdf"}] : n \in 0..MaxFiles}
    /\ up_idx = 0
    /\ polls = 0
    /\ remote = [f \in Files |-> "none"]
    /\ tmp = [f \in Files |-> "none"]
    /\ stage_calls = [f \in Files |-> 0]
    /\ delete_calls = [f \in Files |-> 0]
    /\ unlink_calls = [f \in Files |-> 0]
    /\ uploaded_files = <<>>
    /\ tmp_paths = <<>>
    /\ phase = 0
    /\ attempt = 0
    /\ master_result = EmptyDict
    /\ phase_status = [i \in 1..7 |-> "pending"]
    /\ phase_keys = [i \in 1..7 |-> {}]
    /\ used_in = [f \in Files |-> {}]
    /\ ParseIdle
    /\ WriteIdle
    /\ RestIdle

\* Lines 388-401: the mappings are loaded, their keys categorized, the merged
\* record starts empty; then _upload_files_to_gemini begins.
ExtractPrepare ==
    /\ pc = "ex_call"
    /\ field_groups' = categorize_fields(all_keys)
    /\ master_result' = EmptyDict
    /\ up_idx' = 1
    /\ pc' = "ex_upload"
    /\ UNCHANGED <<all_keys, file_contents, polls, fileVars, phase, attempt,
                   phase_status, phase_keys, used_in, parseVars, writeVars, restVars>>

\* The loop of _upload_files_to_gemini is over.
AllStagedEarly == up_idx > 1 \/ file_contents = <<>>

AllStaged == up_idx > Len(file_contents)

\* _upload_to_gemini for the next file: the temporary file cannot be written
\* (the exception leaves _upload_files_to_gemini through its cleanup).
StageTmpFails ==
    /\ pc = "ex_upload"
    /\ ~AllStaged
    /\ \E left \in {"none", "exists"}, del_fail, unl_fail \in SUBSET Range(uploaded_files) :
          /\ delete_calls' = Bump(delete_calls, Range(uploaded_files))
          /\ remote' = Deleted(remote, Range(uploaded_files), del_fail)
          /\ unlink_calls' = Bump(unlink_calls, Range(tmp_paths))
          /\ tmp' = [Unlinked(tmp, Range(tmp_paths), unl_fail) EXCEPT ![up_idx] = left]
    /\ pc' = "ex_raised"
    /\ UNCHANGED <<all_keys, field_groups, file_contents, up_idx, polls,
                   stage_calls, uploaded_files, tmp_paths, phaseVars,
                   parseVars, writeVars, restVars>>

\* genai.upload_file raises: the temporary file is removed, the files staged
\* so far are cleaned up, the exception is raised again.
StageUploadFails ==
    /\ pc = "ex_upload"
    /\ ~AllStaged
    /\ stage_calls' = [stage_calls EXCEPT ![up_idx] = @ + 1]
    /\ \E del_fail \in SUBSET Range(uploaded_files),
          unl_fail \in SUBSET (Range(tmp_paths) \cup {up_idx}) :
          AbortUpload(up_idx, del_fail, unl_fail)
    /\ pc' = "ex_raised"
    /\ UNCHANGED <<all_keys, field_groups, file_contents, up_idx, polls,
                   uploaded_files, tmp_paths, phaseVars, parseVars, writeVars, restVars>>

\* uploaded_files.append / tmp_paths.append and the next iteration
Staged(f) ==
    /\ uploaded_files' = Append(uploaded_files, f)
    /\ tmp_paths' = Append(tmp_paths, f)
    /\ up_idx' = up_idx + 1
    /\ polls' = 0
    /\ pc' = "ex_upload"

\* The states of a file at the backend that the code tells apart: PROCESSING
\* and any other, for which ACTIVE stands.
FileStates == {"PROCESSING", "ACTIVE"}

\* genai.upload_file returns a file: in state PROCESSING it is polled, in any
\* other state it is returned to the loop as it is.
StageUpload ==
    /\ pc = "ex_upload"
    /\ ~AllStaged
    /\ stage_calls' = [stage_calls EXCEPT ![up_idx] = @ + 1]
    /\ tmp' = [tmp EXCEPT ![up_idx] = "exists"]
    /\ \E st \in FileStates :
          /\ remote' = [remote EXCEPT ![up_idx] = st]
          /\ IF st = "PROCESSING"
             THEN /\ pc' = "ex_poll"
                  /\ UNCHANGED <<uploaded_files, tmp_paths, up_idx, polls>>
             ELSE Staged(up_idx)
    /\ UNCHANGED <<all_keys, field_groups, file_contents, delete_calls,
                   unlink_calls, phaseVars, parseVars, writeVars, restVars>>

\* time.sleep(1); genai.get_file(name) returns the file, still PROCESSING or not
PollFile ==
    /\ pc = "ex_poll"
    /\ \E st \in FileStates :
          /\ st = "PROCESSING" => polls < MaxPolls
          /\ remote' = [remote EXCEPT ![up_idx] = st]
          /\ IF st = "PROCESSING"
             THEN /\ polls' = polls + 1
                  /\ UNCHANGED <<pc, uploaded_files, tmp_paths, up_idx>>
             ELSE Staged(up_idx)
    /\ UNCHANGED <<all_keys, field_groups, file_contents, tmp, stage_calls,
                   delete_calls, unlink_calls, phaseVars, parseVars, writeVars, restVars>>

\* genai.get_file raises while the staged file is polled: the temporary file
\* is removed, the files staged before are cleaned up, the exception is
\* raised again.
PollFails ==
    /\ pc = "ex_poll"
    /\ \E del_fail \in SUBSET Range(uploaded_files),
          unl_fail \in SUBSET (Range(tmp_paths) \cup {up_idx}) :
          AbortUpload(up_idx, del_fail, unl_fail)
    /\ pc' = "ex_raised"
    /\ UNCHANGED <<all_keys, field_groups, file_contents, up_idx, polls,
                   stage_calls, uploaded_files, tmp_paths, phaseVars,
                   parseVars, writeVars, restVars>>

\* The cleanup run where the upload returns, before the phases.
UploadDoneReleasing ==
    /\ pc = "ex_upload"
    /\ AllStaged
    /\ phase' = 1
    /\ attempt' = 0
    /\ pc' = "ex_phases"
    /\ Cleanup(uploaded_files, tmp_paths, {}, {})
    /\ UNCHANGED <<all_keys, field_groups, file_contents, up_idx, polls,
                   stage_calls, uploaded_files, tmp_paths, master_result,
                   phase_status, phase_keys, used_in, parseVars, writeVars, restVars>>

\* _upload_files_to_gemini returns; the loop over field_groups begins.
UploadDone ==
    /\ pc = "ex_upload"
    /\ AllStaged
    /\ phase' = 1
    /\ attempt' = 0
    /\ pc' = "ex_phases"
    /\ UNCHANGED <<all_keys, field_groups, file_contents, up_idx, polls,
                   fileVars, master_result, phase_status, phase_keys, used_in,
                   parseVars, writeVars, restVars>>

InPhase == pc = "ex_phases" /\ phase <= 7

\* if not fields: continue
PhaseSkip ==
    /\ InPhase
    /\ field_groups[phase] = <<>>
    /\ phase_status' = [phase_status EXCEPT ![phase] = "skipped"]
    /\ phase' = phase + 1
    /\ UNCHANGED <<pc, all_keys, field_groups, file_contents, up_idx, polls,
                   fileVars, attempt, master_result, phase_keys, used_in,
                   parseVars, writeVars, restVars>>

\* model.generate_content([*uploaded_files, prompt]): every staged handle is
\* referenced, in the state it is in.
CallBackend ==
    used_in' = [f \in Files |->
                  IF f \in Range(uploaded_files)
                  THEN used_in[f] \cup {HandleState(f)} ELSE used_in[f]]

\* What the except clause of the phase does to the loop index.
AfterPhaseFailureAbort(i) == 8

\* except Exception as e: print(...) -- the loop goes on with the next phase
AfterPhaseFailure(i) == i + 1

\* The call raises a rate-limit error before the last attempt: sleep, retry.
PhaseRetry ==
    /\ InPhase
    /\ field_groups[phase] # <<>>
    /\ attempt < retries - 1
    /\ CallBackend
    /\ attempt' = attempt + 1
    /\ UNCHANGED <<pc, all_keys, field_groups, file_contents, up_idx, polls,
                   fileVars, phase, master_result, phase_status, phase_keys,
                   parseVars, writeVars, restVars>>

\* The call raises for good: a rate-limit error on the last attempt, or any
\* other error on any attempt.
PhaseCallFails ==
    /\ InPhase
    /\ field_groups[phase] # <<>>
    /\ CallBackend
    /\ \E cause \in {"rate_limit", "error"} :
          cause = "rate_limit" => attempt = retries - 1
    /\ phase_status' = [phase_status EXCEPT ![phase] = "failed"]
    /\ phase' = AfterPhaseFailure(phase)
    /\ attempt' = 0
    /\ UNCHANGED <<pc, all_keys, field_groups, file_contents, up_idx, polls,
                   fileVars, master_result, phase_keys, parseVars, writeVars, restVars>>

\* The call returns a text.  If it does not parse the phase has failed; if
\* it parses to an object, that is merged into master_result; anything else
\* is reported and dropped.
PhaseReturns ==
    /\ InPhase
    /\ field_groups[phase] # <<>>
    /\ CallBackend
    /\ \E text \in ResponseTexts :
          LET parsed == parse_json_result(text) IN
          IF parsed.raised
          THEN /\ phase_status' = [phase_status EXCEPT ![phase] = "failed"]
               /\ phase' = AfterPhaseFailure(phase)
               /\ UNCHANGED <<master_result, phase_keys>>
          ELSE IF parsed.value.t = "dict"
          THEN /\ master_result' = DictUpdate(master_result, parsed.value.d)
               /\ phase_status' = [phase_status EXCEPT ![phase] = "ok"]
               /\ phase_keys' = [phase_keys EXCEPT ![phase] = DOMAIN parsed.value.d]
               /\ phase' = phase + 1
          ELSE /\ phase_status' = [phase_status EXCEPT ![phase] = "nondict"]
               /\ phase' = phase + 1
               /\ UNCHANGED <<master_result, phase_keys>>
    /\ attempt' = 0
    /\ UNCHANGED <<pc, all_keys, field_groups, file_contents, up_idx, polls,
                   fileVars, parseVars, writeVars, restVars>>

\* return master_result, and the finally clause: _cleanup_files
ExtractReturn ==
    /\ pc = "ex_phases"
    /\ phase > 7
    /\ \E del_fail, unl_fail \in SUBSET Range(uploaded_files) :
          Cleanup(uploaded_files, tmp_paths, del_fail, unl_fail)
    /\ pc' = "ex_returned"
    /\ UNCHANGED <<all_keys, field_groups, file_contents, up_idx, polls,
                   stage_calls, uploaded_files, tmp_paths, phaseVars,
                   parseVars, writeVars, restVars>>

NextExtract ==
    \/ ExtractPrepare
    \/ StageTmpFails
    \/ StageUploadFails
    \/ StageUpload
    \/ PollFile
    \/ PollFails
    \/ UploadDone
    \/ PhaseSkip
    \/ PhaseRetry
    \/ PhaseCallFails
    \/ PhaseReturns
    \/ ExtractReturn

SpecExtract == InitExtract /\ [][NextExtract]_vars

----------------------------------------------------------------------------
(* AIService._cleanup_files, called on handles that are staged and called   *)
(* again on handles it has released                                         *)

MaxCleanups == 2
MaxHandles == 3

\* uploaded_files and tmp_paths as the staging loop has filled them: one
\* handle and one temporary file for each of the files.
InitCleanup ==
    /\ pc = "cl_call"
    /\ file_contents \in UNION {[1..n -> {"application/pdf"}] : n \in 1..MaxHandles}
    /\ up_idx = Len(file_contents) + 1
    /\ polls = 0
    /\ remote = [f \in Files |-> "ACTIVE"]
    /\ tmp = [f \in Files |-> "exists"]
    /\ stage_calls = [f \in Files |-> 1]
    /\ delete_calls = [f \in Files |-> 0]
    /\ unlink_calls = [f \in Files |-> 0]
    /\ uploaded_files = [f \in Files |-> f]
    /\ tmp_paths = [f \in Files |-> f]
    /\ phase = 0
    /\ attempt = 0
    /\ master_result = <<>>
    /\ phase_status = [i \in 1..7 |-> "pending"]
    /\ phase_keys = [i \in 1..7 |-> {}]
    /\ used_in = [f \in Files |-> {}]
    /\ CatIdle
    /\ ParseIdle
    /\ WriteIdle
    /\ RestIdle

\* One call of _cleanup_files(uploaded_files, tmp_paths).  delete_file may
\* fail for any handle; os.unlink may fail for any path and does fail for a
\* path that is gone (FileNotFoundError).
CleanupFiles ==
    /\ pc \in {"cl_call", "cl_returned"}
    /\ delete_calls[uploaded_files[1]] < MaxCleanups
    /\ \E del_fail \in SUBSET Range(uploaded_files),
          unl_fail \in SUBSET Range(tmp_paths) :
          /\ \A f \in Range(tmp_paths) : tmp[f] = "removed" => f \in unl_fail
          /\ Cleanup(uploaded_files, tmp_paths, del_fail, unl_fail)
          /\ pc' = IF Release(uploaded_files, del_fail).raised
                      \/ Release(tmp_paths, unl_fail).raised
                   THEN "cl_raised" ELSE "cl_returned"
    /\ UNCHANGED <<file_contents, up_idx, polls, stage_calls, uploaded_files,
                   tmp_paths, phaseVars, catVars, parseVars, writeVars, restVars>>

NextCleanup == CleanupFiles

SpecCleanup == InitCleanup /\ [][NextCleanup]_vars

----------------------------------------------------------------------------
(* SheetsService.write_service_meeting_to_row *)

\* The cell taken from the last related key instead of the first.
RowCellLast(header, flat) ==
    IF ContainMatches(header, flat) = {} THEN <<>>
    ELSE flat[CHOOSE k \in ContainMatches(header, flat) :
                \A j \in ContainMatches(header, flat) : j <= k].value

\* val = ""; for key, value in flat_data.items(): if key in header or
\* header in key: val = str(value) if value else ""; break
\* (the values of the flattened record are strings, never lists)
RowCell(header, flat) ==
    IF ContainMatches(header, flat) = {} THEN <<>>
    ELSE flat[SetMin(ContainMatches(header, flat))].value

\* row_data: one val per header, in header order
RowData(hs, flat) == [i \in 1..Len(hs) |-> RowCell(hs[i], flat)]

\* What a row writer returns: the dict with success, write_count and
\* sheet_url or error; or the exception it raises.
RowSuccess ==
    [kind |-> "returned", success |-> TRUE, write_count |-> 1,
     sheet_url |-> "master", error |-> ""]
RowFailure(error) ==
    [kind |-> "returned", success |-> FALSE, write_count |-> 0,
     sheet_url |-> "", error |-> error]
RowRaised(error) ==
    [kind |-> "raised", success |-> FALSE, write_count |-> 0,
     sheet_url |-> "", error |-> error]
NoRowResult == [kind |-> "none"]

MaxHeaders == 2
MaxRowItems == 2

H_date == <<38283, 20652, 26085>>       \* a header no key is related to

\* Header cells: related to several keys, to one, to none; an empty cell.
ServiceHeaderCells == {K_name, K_user_name, K_address, H_date, <<>>}

ServiceHeaderRows == UNION {[1..k -> ServiceHeaderCells] : k \in 0..MaxHeaders}

RowKeys == {K_name, K_user_name, K_address}

RowValues ==
    { PyStr(V_tanaka), PyStr(V_tokyo), PyNone,
      PyDict(<<[key |-> K_name, value |-> PyStr(V_tokyo)]>>) }

\* Records of up to MaxRowItems items with distinct keys.
RowRecords ==
    UNION { { d \in [1..k -> [key : RowKeys, value : RowValues]] :
                \A i, j \in 1..k : i # j => d[i].key # d[j].key } :
            k \in 0..MaxRowItems }

\* The components of the service no row writer touches.
RowWriteIdle ==
    /\ mapping_type = ""
    /\ mapping_dict = NotLoaded
    /\ mapping2_dict = NotLoaded
    /\ flat_data = <<>>
    /\ cells_to_update = <<>>
    /\ resolved = <<>>
    /\ written_count = 0
    /\ open_calls = 0
    /\ batch_log = <<>>
    /\ batch_failed = FALSE
    /\ cell_log = <<>>
    /\ fb_idx = 0
    /\ write_result = NoResult

rowUntouched ==
    <<mapping_dict, mapping2_dict, mapping_type, cells_to_update, resolved,
      written_count, batch_log, batch_failed, cell_log, fb_idx, write_result,
      catVars, parseVars, exVars, apiVars, retryVars, sheetVars, promptVars>>

rowArgs == <<client, data, date_str, time_str, place, participants>>

InitServiceRow ==
    /\ pc = "srow_call"
    /\ client \in BOOLEAN
    /\ data \in RowRecords
    /\ ws_exists \in BOOLEAN
    /\ headers \in ServiceHeaderRows
    /\ ~ws_exists => headers = <<>>
    /\ date_str = <<>>
    /\ time_str = <<>>
    /\ place = <<>>
    /\ participants = <<>>
    /\ appended = <<>>
    /\ row_result = NoRowResult
    /\ RowWriteIdle
    /\ CatIdle
    /\ ParseIdle
    /\ ExtractIdle
    /\ ApiIdle
    /\ RetryIdle
    /\ SheetIdle
    /\ PromptIdle

\* if not self.client: raise ValueError(...)
ServiceRowNoClient ==
    /\ pc = "srow_call"
    /\ ~client
    /\ row_result' = RowRaised("Google Sheets client not initialized")
    /\ pc' = "srow_raised"
    /\ UNCHANGED <<rowArgs, rowUntouched, flat_data, open_calls, ws_exists,
                   headers, appended>>

\* open_by_key, add_worksheet or row_values raises: the outer except clause
\* returns the failure
ServiceRowOpenFails ==
    /\ pc = "srow_call"
    /\ client
    /\ open_calls' = open_calls + 1
    /\ row_result' = RowFailure("api")
    /\ pc' = "srow_done"
    /\ UNCHANGED <<rowArgs, rowUntouched, flat_data, ws_exists, headers,
                   appended>>

\* The worksheet, created when it is missing, has no first row.
ServiceRowNoHeaders ==
    /\ pc = "srow_call"
    /\ client
    /\ headers = <<>>
    /\ open_calls' = open_calls + 1
    /\ ws_exists' = TRUE
    /\ row_result' = RowFailure("no headers")
    /\ pc' = "srow_done"
    /\ UNCHANGED <<rowArgs, rowUntouched, flat_data, headers, appended>>

\* The row is built and worksheet.append_row(row_data) returns.
ServiceRowAppend ==
    /\ pc = "srow_call"
    /\ client
    /\ headers # <<>>
    /\ open_calls' = open_calls + 1
    /\ flat_data' = flatten_data(data)
    /\ appended' = Append(appended, RowData(headers, flat_data'))
    /\ row_result' = RowSuccess
    /\ pc' = "srow_done"
    /\ UNCHANGED <<rowArgs, rowUntouched, ws_exists, headers>>

\* The row is built and worksheet.append_row(row_data) raises.
ServiceRowAppendFails ==
    /\ pc = "srow_call"
    /\ client
    /\ headers # <<>>
    /\ open_calls' = open_calls + 1
    /\ flat_data' = flatten_data(data)
    /\ row_result' = RowFailure("api")
    /\ pc' = "srow_done"
    /\ UNCHANGED <<rowArgs, rowUntouched, ws_exists, headers, appended>>

NextServiceRow ==
    \/ ServiceRowNoClient
    \/ ServiceRowOpenFails
    \/ ServiceRowNoHeaders
    \/ ServiceRowAppend
    \/ ServiceRowAppendFails

SpecServiceRow == InitServiceRow /\ [][NextServiceRow]_vars

----------------------------------------------------------------------------
(* SheetsService.write_management_meeting_to_row *)

Slash == 47

RECURSIVE DigitsValue(_)
\* int(s) of a string of digits
DigitsValue(s) ==
    IF s = <<>> THEN 0
    ELSE 10 * DigitsValue(SubSeq(s, 1, Len(s) - 1)) + (s[Len(s)] - 48)

AllDigits(s) == s # <<>> /\ \A i \in 1..Len(s) : IsDigit(s[i])

IsLeap(y) == (y % 4 = 0 /\ y % 100 # 0) \/ y % 400 = 0

DaysInMonth(y, m) ==
    IF m = 2 THEN (IF IsLeap(y) THEN 29 ELSE 28)
    ELSE IF m \in {4, 6, 9, 11} THEN 30 ELSE 31

NoDate == [ok |-> FALSE, y |-> 0, m |-> 0, d |-> 0]

\* datetime.strptime(clean, "%Y<sep>%m<sep>%d"): four digits, one or two
\* digits, one or two digits, a date of the calendar; ok = FALSE is ValueError
Strptime(clean, sep) ==
    LET parts == Split(clean, {sep}) IN
    IF Len(parts) # 3 THEN NoDate
    ELSE IF ~(AllDigits(parts[1]) /\ AllDigits(parts[2]) /\ AllDigits(parts[3]))
    THEN NoDate
    ELSE IF Len(parts[1]) # 4 \/ Len(parts[2]) > 2 \/ Len(parts[3]) > 2 THEN NoDate
    ELSE LET y == DigitsValue(parts[1])
             m == DigitsValue(parts[2])
             d == DigitsValue(parts[3])
         IN IF y >= 1 /\ m \in 1..12 /\ d >= 1 /\ d <= DaysInMonth(y, m)
            THEN [ok |-> TRUE, y |-> y, m |-> m, d |-> d]
            ELSE NoDate

TwoDigits(n) == <<48 + (n \div 10), 48 + (n % 10)>>

\* dt.strftime("%Y<nen>%m<gatsu>%d<nichi>") for a year of four digits
Strftime(dt) ==
    TwoDigits(dt.y \div 100) \o TwoDigits(dt.y % 100) \o <<24180>>
        \o TwoDigits(dt.m) \o <<26376>> \o TwoDigits(dt.d) \o <<26085>>

\* val_date of a str raw_date: rewritten when it holds '-' or '/' and its
\* part before the first blank parses, else left as it is
FormatDate(raw) ==
    IF raw = <<>> THEN raw
    ELSE IF Dash \in Range(raw)
    THEN LET dt == Strptime(Split(raw, {SP})[1], Dash)
         IN IF dt.ok THEN Strftime(dt) ELSE raw
    ELSE IF Slash \in Range(raw)
    THEN LET dt == Strptime(Split(raw, {SP})[1], Slash)
         IN IF dt.ok THEN Strftime(dt) ELSE raw
    ELSE raw

\* data.get(key, "")
DictGet(items, key) == IF HasKey(items, key) THEN Lookup(items, key) ELSE PyStr(<<>>)

\* The extracted value taken whenever the record has one.
ExtractedFirst(arg, extracted) ==
    IF Truthy(extracted) THEN extracted ELSE PyStr(arg)

\* arg if arg else data.get(key, "")
Explicit(arg, extracted) == IF arg # <<>> THEN PyStr(arg) ELSE extracted

\* val_date
ValDate(d_str, items) ==
    LET raw_date == Explicit(d_str, DictGet(items, "meeting_date"))
    IN IF raw_date.t = "str" THEN PyStr(FormatDate(raw_date.s)) ELSE raw_date

\* f"{value}" of a str or of None
FStr(v) == IF v.t = "none" THEN <<78, 111, 110, 101>> ELSE v.s

KW_date == <<26085, 26178>>
KW_participants == <<21442, 21152, 32773>>
KW_place_sharing == <<22580, 25152, 12539, 20849, 26377>>
KW_place == <<22580, 25152>>
KW_sharing == <<20849, 26377>>
KW_agenda == <<35696, 38988>>
KW_24h == <<50, 52, 26178, 38291>>

\* The label "basho: " of the combined column
PlaceLabel == <<22580, 25152, 58, 32>>

\* The cell of one header: the if / elif chain over h = header.strip()
MgmtCell(header, d_str, pl, pa, items) ==
    LET h == Strip(header)
        val_place == Explicit(pl, DictGet(items, "place"))
        val_sharing == DictGet(items, "sharing_matters")
    IN IF Contains(KW_date, h) THEN ValDate(d_str, items)
       ELSE IF Contains(KW_participants, h)
       THEN Explicit(pa, DictGet(items, "participants"))
       ELSE IF Contains(KW_place_sharing, h)
       THEN PyStr(PlaceLabel \o FStr(val_place) \o <<NL, NL>> \o FStr(val_sharing))
       ELSE IF Contains(KW_place, h) THEN val_place
       ELSE IF Contains(KW_sharing, h) THEN val_sharing
       ELSE IF Contains(KW_agenda, h) THEN DictGet(items, "agenda")
       ELSE IF Contains(KW_24h, h) THEN DictGet(items, "support_24h")
       ELSE PyStr(<<>>)

MgmtRowData(hs, d_str, pl, pa, items) ==
    [i \in 1..Len(hs) |-> MgmtCell(hs[i], d_str, pl, pa, items)]

\* ["nichiji", "kaisai basho", "sankasha", "gidai komoku", "24 jikan taio",
\*  "kyoyu jiko"]
DefaultHeaders ==
    << KW_date, <<38283, 20652>> \o KW_place, KW_participants,
       KW_agenda \o <<38917, 30446>>, KW_24h \o <<23550, 24540>>,
       KW_sharing \o <<20107, 38917>> >>

\* A first row with the combined column, a padded header and an unknown one
CombinedHeaders ==
    << <<SP>> \o KW_date \o <<SP>>, KW_place_sharing, KW_participants, H_date >>

MgmtHeaderRows == {<<>>, DefaultHeaders, CombinedHeaders}

D_explicit == <<50, 48, 50, 54, 45, 48, 49, 45, 49, 55>>          \* "2026-01-17"
D_slash == <<50, 48, 50, 54, 47, 49, 47, 55>>                     \* "2026/1/7"
D_with_time == D_explicit \o <<SP, 49, 48, 58, 48, 48>>           \* "2026-01-17 10:00"
D_no_such_day == <<50, 48, 50, 54, 45, 48, 50, 45, 51, 48>>       \* "2026-02-30"
D_japanese == <<49, 26376, 49, 55, 26085>>                        \* no '-', no '/'
D_extracted == <<50, 48, 50, 53, 45, 49, 50, 45, 48, 49>>         \* "2025-12-01"
T_ten == <<49, 48, 58, 48, 48>>                                   \* "10:00"
P_room == <<20250, 35696, 23460>>
P_home == <<33258, 23429>>
V_sato == <<20304, 34276>>

DateArgs == {<<>>, D_explicit, D_slash, D_with_time, D_no_such_day, D_japanese}

Item(key, value) == [key |-> key, value |-> value]

\* The extracted record: each field absent or present
MgmtRecords ==
    { md \o pl \o pa \o sh :
        md \in {<<>>, <<Item("meeting_date", PyStr(D_extracted))>>,
                <<Item("meeting_date", PyNone)>>},
        pl \in {<<>>, <<Item("place", PyStr(P_home))>>},
        pa \in {<<>>, <<Item("participants", PyStr(V_tanaka))>>},
        sh \in {<<>>, <<Item("sharing_matters", PyStr(V_tokyo))>>} }

InitMgmtRow ==
    /\ pc = "mrow_call"
    /\ client \in BOOLEAN
    /\ data \in MgmtRecords
    /\ ws_exists \in BOOLEAN
    /\ headers \in MgmtHeaderRows
    /\ ~ws_exists => headers = <<>>
    /\ date_str \in DateArgs
    /\ time_str \in {<<>>, T_ten}
    /\ place \in {<<>>, P_room}
    /\ participants \in {<<>>, V_sato}
    /\ appended = <<>>
    /\ row_result = NoRowResult
    /\ RowWriteIdle
    /\ CatIdle
    /\ ParseIdle
    /\ ExtractIdle
    /\ ApiIdle
    /\ RetryIdle
    /\ SheetIdle
    /\ PromptIdle

\* if not self.client: raise ValueError(...)
MgmtRowNoClient ==
    /\ pc = "mrow_call"
    /\ ~client
    /\ row_result' = RowRaised("Google Sheets client not initialized")
    /\ pc' = "mrow_raised"
    /\ UNCHANGED <<rowArgs, rowUntouched, flat_data, open_calls, ws_exists,
                   headers, appended>>

\* open_by_key, add_worksheet, the append of the header row or row_values
\* raises: the outer except clause returns the failure
MgmtRowOpenFails ==
    /\ pc = "mrow_call"
    /\ client
    /\ open_calls' = open_calls + 1
    /\ row_result' = RowFailure("api")
    /\ pc' = "mrow_done"
    /\ UNCHANGED <<rowArgs, rowUntouched, flat_data, ws_exists, headers,
                   appended>>

\* The header row is missing: the sheet is new, or its first row is empty
HeaderRowMissing == ~ws_exists \/ headers = <<>>

\* The rows appended before the data row: the default header row, if needed
HeaderRowAppended ==
    IF HeaderRowMissing THEN <<[i \in 1..6 |-> PyStr(DefaultHeaders[i])]>>
    ELSE <<>>

\* The row is built over the headers and worksheet.append_row returns.
MgmtRowAppend ==
    /\ pc = "mrow_call"
    /\ client
    /\ open_calls' = open_calls + 1
    /\ ws_exists' = TRUE
    /\ headers' = IF HeaderRowMissing THEN DefaultHeaders ELSE headers
    /\ appended' = HeaderRowAppended
                     \o <<MgmtRowData(headers', date_str, place, participants, data)>>
    /\ row_result' = RowSuccess
    /\ pc' = "mrow_done"
    /\ UNCHANGED <<rowArgs, rowUntouched, flat_data>>

\* The row is built and worksheet.append_row(row_data) raises.
MgmtRowAppendFails ==
    /\ pc = "mrow_call"
    /\ client
    /\ open_calls' = open_calls + 1
    /\ ws_exists' = TRUE
    /\ headers' = IF HeaderRowMissing THEN DefaultHeaders ELSE headers
    /\ appended' = HeaderRowAppended
    /\ row_result' = RowFailure("api")
    /\ pc' = "mrow_done"
    /\ UNCHANGED <<rowArgs, rowUntouched, flat_data>>

NextMgmtRow ==
    \/ MgmtRowNoClient
    \/ MgmtRowOpenFails
    \/ MgmtRowAppend
    \/ MgmtRowAppendFails

SpecMgmtRow == InitMgmtRow /\ [][NextMgmtRow]_vars

----------------------------------------------------------------------------
(* main.py: the operations of the HTTP surface *)

\* AnalyzeResponse(success, data, error, genogram_draft_id, bodymap_draft_id);
\* a draft id of 0 stands for None.
NoResponse ==
    [kind |-> "none", success |-> FALSE, data |-> "none", error |-> "",
     genogram_draft_id |-> 0, bodymap_draft_id |-> 0]
AnalyzeResponse(success, payload, error, gen_id, body_id) ==
    [kind |-> "returned", success |-> success, data |-> payload,
     error |-> error, genogram_draft_id |-> gen_id,
     bodymap_draft_id |-> body_id]
\* An exception that leaves the handler: an HTTPException it raises, or any
\* exception no clause of it catches.
Escapes(error) ==
    [kind |-> "raised", success |-> FALSE, data |-> "none", error |-> error,
     genogram_draft_id |-> 0, bodymap_draft_id |-> 0]

Failure(error) == AnalyzeResponse(FALSE, "none", error, 0, 0)
Success(payload) == AnalyzeResponse(TRUE, payload, "", 0, 0)

NoRequest ==
    [analysis_type |-> "", file_keys |-> <<>>, file_key |-> "", files |-> <<>>]

MaxFileKeys == 2

\* Keys of stored objects: the part after the last "." decides the mime type.
NoKey == ""
FileKeys == {"a.pdf", "b.mp3", "c"}

\* ext = key.split(".")[-1].lower() if "." in key else "bin"
Ext(key) ==
    CASE key = "a.pdf" -> "pdf"
      [] key = "b.mp3" -> "mp3"
      [] OTHER -> "bin"

\* analyze_audio, the loop over file_keys: the mime type guessed from ext
MimeOfKey(key) ==
    CASE Ext(key) \in {"mp3", "m4a", "wav"} -> "audio/mp3"
      [] Ext(key) = "pdf" -> "application/pdf"
      [] Ext(key) \in {"jpg", "jpeg", "png"} -> "image/jpeg"
      [] OTHER -> "application/octet-stream"

\* analyze_audio, the single file_key: audio/mp4 unless the key ends in .pdf
MimeOfSingleKey(key) ==
    IF Ext(key) = "pdf" THEN "application/pdf" ELSE "audio/mp4"

\* The loop over file_keys with the try statement around the whole loop: the
\* first key that cannot be fetched gives up the keys fetched so far.
FetchAllAbort(keys, store) ==
    IF \A i \in 1..Len(keys) : keys[i] \in store
    THEN [i \in 1..Len(keys) |-> [key |-> keys[i], mime |-> MimeOfKey(keys[i])]]
    ELSE <<>>

\* for key in request.file_keys: try: data = storage_service.get_file(key);
\* file_contents.append((data, mime)) except Exception: print(...)
RECURSIVE FetchAll(_, _)
FetchAll(keys, store) ==
    IF keys = <<>> THEN <<>>
    ELSE (IF Head(keys) \in store
          THEN <<[key |-> Head(keys), mime |-> MimeOfKey(Head(keys))]>>
          ELSE <<>>) \o FetchAll(Tail(keys), store)

FetchSingle(key, store) ==
    IF key \in store THEN <<[key |-> key, mime |-> MimeOfSingleKey(key)]>>
    ELSE <<>>

AnalysisTypes ==
    {"assessment", "management_meeting", "service_meeting", "meeting", "qa",
     "other"}

\* The analysis types analyze_audio and analyze_file_direct hand to a
\* summary method of the AI service.
SummaryTypes == {"management_meeting", "service_meeting", "meeting", "qa"}

\* What a call of the AI service does: it returns its dict or it raises.
ServiceOutcomes == {"returned", "raised"}

\* extract_assessment_info is a plain method: what it returns is a dict.
ExtractionResult == [kind |-> "dict", payload |-> "record"]

\* `await value` raises TypeError unless value is awaitable.
Awaitable(value) == value.kind \in {"coroutine", "future"}

\* The methods StorageService defines.
StorageServiceMethods ==
    {"generate_presigned_url", "get_file", "delete_file", "get_download_url"}

\* Uploaded files of analyze_file_direct, analyze_pdf and analyze_image.
Uploads ==
    {[filename |-> "x.pdf", content_type |-> ""],
     [filename |-> "y.png", content_type |-> "image/png"]}

ApiRequests(ep) ==
    CASE ep = "analyze_audio" ->
           { [analysis_type |-> t, file_keys |-> ks, file_key |-> k,
              files |-> <<>>] :
               t \in AnalysisTypes,
               ks \in UNION {[1..n -> FileKeys] : n \in 0..MaxFileKeys},
               k \in {NoKey} \cup FileKeys }
      [] ep = "analyze_file_direct" ->
           { [analysis_type |-> t, file_keys |-> <<>>, file_key |-> NoKey,
              files |-> fs] :
               t \in AnalysisTypes,
               fs \in UNION {[1..n -> Uploads] : n \in 1..MaxFileKeys} }
      [] ep \in {"analyze_pdf", "analyze_image"} ->
           { [analysis_type |-> "", file_keys |-> <<>>, file_key |-> NoKey,
              files |-> <<f>>] : f \in Uploads }
      [] OTHER -> {NoRequest}

Endpoints ==
    {"analyze_audio", "analyze_file_direct", "analyze_pdf", "analyze_image",
     "generate_genogram", "generate_bodymap", "get_presigned_url",
     "upload_file_direct"}

BgIdle == [genogram |-> "pending", bodymap |-> "pending"]

\* The parts of the service layer a handler of main.py does not enter here.
ApiRestIdle ==
    /\ RowIdle
    /\ WriteIdle
    /\ CatIdle
    /\ ParseIdle
    /\ ExtractIdle
    /\ RetryIdle
    /\ SheetIdle
    /\ PromptIdle

apiUntouched ==
    <<catVars, parseVars, writeVars, exVars, rowVars, retryVars, sheetVars,
      promptVars>>

InitAnalyze ==
    /\ pc = "api_call"
    /\ endpoint \in Endpoints
    /\ request \in ApiRequests(endpoint)
    /\ s3_client \in BOOLEAN
    /\ in_store \in SUBSET FileKeys
    /\ ~s3_client => in_store = {}
    /\ fetched = <<>>
    /\ analysis = "none"
    /\ response = NoResponse
    /\ uuids = 0
    /\ tasks = <<>>
    /\ drafts = {}
    /\ bg_status = BgIdle
    /\ ApiRestIdle

\* The tail of analyze_audio and analyze_file_direct for "assessment":
\* result = await ai_service.extract_assessment_info(file_contents), then the
\* two ids, add_task and the response.  The except clause of the handler
\* turns what the call or the await raises into a failure.
AssessmentBranch(out) ==
    /\ analysis' = out
    /\ IF out = "raised"
       THEN /\ response' = Failure("extraction")
            /\ UNCHANGED <<uuids, tasks>>
       ELSE IF ~Awaitable(ExtractionResult)
       THEN /\ response' = Failure("object dict can't be used in 'await' expression")
            /\ UNCHANGED <<uuids, tasks>>
       ELSE /\ uuids' = uuids + 2
            /\ tasks' = Append(tasks, [text |-> ExtractionResult.payload,
                                       genogram_id |-> uuids + 1,
                                       bodymap_id |-> uuids + 2])
            /\ response' = AnalyzeResponse(TRUE, ExtractionResult.payload, "",
                                           uuids + 1, uuids + 2)

\* result = ai_service.generate_..._summary(file_contents) and the response
SummaryBranch(out) ==
    /\ analysis' = out
    /\ response' = IF out = "raised" THEN Failure("summary") ELSE Success("summary")
    /\ UNCHANGED <<uuids, tasks>>

\* analyze_audio.  The upload of the fetched files to Drive for the meeting
\* types sits in its own try/except and leaves the response alone.
AnalyzeAudio ==
    /\ pc = "api_call"
    /\ endpoint = "analyze_audio"
    /\ pc' = "api_done"
    /\ LET fc == IF request.file_keys # <<>>
                 THEN FetchAll(request.file_keys, in_store)
                 ELSE IF request.file_key # NoKey
                 THEN FetchSingle(request.file_key, in_store)
                 ELSE <<>>
       IN /\ fetched' = fc
          /\ IF request.file_keys = <<>> /\ request.file_key = NoKey
             THEN /\ response' = Failure("No file_key or file_keys provided")
                  /\ UNCHANGED <<analysis, uuids, tasks>>
             ELSE IF fc = <<>>
             THEN /\ response' = Failure("No accessible files found")
                  /\ UNCHANGED <<analysis, uuids, tasks>>
             ELSE IF request.analysis_type = "assessment"
             THEN \E out \in ServiceOutcomes : AssessmentBranch(out)
             ELSE IF request.analysis_type \in SummaryTypes
             THEN \E out \in ServiceOutcomes : SummaryBranch(out)
             ELSE /\ response' = Failure("Unknown analysis type")
                  /\ UNCHANGED <<analysis, uuids, tasks>>
    /\ UNCHANGED <<endpoint, request, s3_client, in_store, drafts, bg_status,
                   apiUntouched>>

\* content_type or "application/octet-stream", corrected by the file name
DirectMime(file) ==
    IF file.content_type # "" THEN file.content_type
    ELSE IF file.filename = "x.pdf" THEN "application/pdf"
    ELSE "application/octet-stream"

\* analyze_file_direct: an unknown analysis type is handled as an assessment,
\* by a call without await.
AnalyzeFileDirect ==
    /\ pc = "api_call"
    /\ endpoint = "analyze_file_direct"
    /\ pc' = "api_done"
    /\ \E read_ok \in BOOLEAN :
         IF ~read_ok
         THEN /\ response' = Failure("read")
              /\ UNCHANGED <<fetched, analysis, uuids, tasks>>
         ELSE /\ fetched' = [i \in 1..Len(request.files) |->
                               [key |-> request.files[i].filename,
                                mime |-> DirectMime(request.files[i])]]
              /\ IF request.analysis_type = "assessment"
                 THEN \E out \in ServiceOutcomes : AssessmentBranch(out)
                 ELSE IF request.analysis_type \in SummaryTypes
                 THEN \E out \in ServiceOutcomes : SummaryBranch(out)
                 ELSE \E out \in ServiceOutcomes :
                        /\ analysis' = out
                        /\ response' = IF out = "raised"
                                       THEN Failure("extraction")
                                       ELSE Success(ExtractionResult.payload)
                        /\ UNCHANGED <<uuids, tasks>>
    /\ UNCHANGED <<endpoint, request, s3_client, in_store, drafts, bg_status,
                   apiUntouched>>

\* analyze_pdf and analyze_image: no try statement; whatever file.read() or
\* extract_assessment_info raises leaves the handler.
AnalyzeSingle(ep) ==
    /\ pc = "api_call"
    /\ endpoint = ep
    /\ pc' = "api_done"
    /\ \E read_ok \in BOOLEAN :
         IF ~read_ok
         THEN /\ response' = Escapes("read")
              /\ UNCHANGED <<fetched, analysis>>
         ELSE /\ fetched' = <<[key |-> request.files[1].filename,
                               mime |-> IF ep = "analyze_pdf"
                                        THEN "application/pdf"
                                        ELSE IF request.files[1].content_type # ""
                                        THEN request.files[1].content_type
                                        ELSE "image/jpeg"]>>
              /\ \E out \in ServiceOutcomes :
                   /\ analysis' = out
                   /\ response' = IF out = "raised" THEN Escapes("extraction")
                                  ELSE Success(ExtractionResult.payload)
    /\ UNCHANGED <<endpoint, request, s3_client, in_store, uuids, tasks, drafts,
                   bg_status, apiUntouched>>

AnalyzePdf == AnalyzeSingle("analyze_pdf")

AnalyzeImage == AnalyzeSingle("analyze_image")

\* generate_genogram and generate_bodymap: try: result = ai_service.
\* generate_..._data(request.text); except Exception: the failure
GenerateDiagram(ep) ==
    /\ pc = "api_call"
    /\ endpoint = ep
    /\ pc' = "api_done"
    /\ \E out \in ServiceOutcomes :
         /\ analysis' = out
         /\ response' = IF out = "raised" THEN Failure("generation")
                        ELSE Success("diagram")
    /\ UNCHANGED <<endpoint, request, s3_client, in_store, fetched, uuids,
                   tasks, drafts, bg_status, apiUntouched>>

GenerateGenogram == GenerateDiagram("generate_genogram")

GenerateBodymap == GenerateDiagram("generate_bodymap")

\* get_presigned_url: except Exception as e: raise HTTPException(500)
GetPresignedUrl ==
    /\ pc = "api_call"
    /\ endpoint = "get_presigned_url"
    /\ pc' = "api_done"
    /\ \E out \in ServiceOutcomes :
         response' = IF ~s3_client \/ out = "raised" THEN Escapes("500")
                     ELSE Success("upload_url")
    /\ UNCHANGED <<endpoint, request, s3_client, in_store, fetched, analysis,
                   uuids, tasks, drafts, bg_status, apiUntouched>>

\* upload_file_direct: HTTPException(500) without the storage client; with it,
\* storage_service.upload_file(...) is looked up on StorageService.
UploadFileDirect ==
    /\ pc = "api_call"
    /\ endpoint = "upload_file_direct"
    /\ pc' = "api_done"
    /\ \E out \in ServiceOutcomes :
         response' = IF \/ ~s3_client
                        \/ "upload_file" \notin StorageServiceMethods
                        \/ out = "raised"
                     THEN Escapes("500")
                     ELSE Success("file_key")
    /\ UNCHANGED <<endpoint, request, s3_client, in_store, fetched, analysis,
                   uuids, tasks, drafts, bg_status, apiUntouched>>

NextAnalyze ==
    \/ AnalyzeAudio
    \/ AnalyzeFileDirect
    \/ AnalyzePdf
    \/ AnalyzeImage
    \/ GenerateGenogram
    \/ GenerateBodymap
    \/ GetPresignedUrl
    \/ UploadFileDirect

SpecAnalyze == InitAnalyze /\ [][NextAnalyze]_vars

----------------------------------------------------------------------------
(* main.py: run_background_generation *)

\* The statuses of an artifact whose generation was called.
Attempted == {"stored", "unsaved", "failed_generate", "failed_store"}

\* What the try block of one artifact can come to: the AI service raises
\* (or its answer is no JSON); without the storage client nothing is put;
\* put_object raises; put_object returns.
ArtifactOutcomes(has_store) ==
    IF has_store THEN {"stored", "failed_generate", "failed_store"}
    ELSE {"unsaved", "failed_generate"}

\* key = f"drafts/{id}.json"
DraftKey(id) == id

\* Where run_background_generation goes on after the block of the genogram
\* failed, had the block no except clause of its own: the outer except.
AfterGenogramFailureAbort == "bg_done"

\* except Exception as e: print(f"Background Error (Genogram): {e}"): the
\* function goes on with the body map.
AfterGenogramFailure == "bg_bodymap"

InitBackground ==
    /\ pc = "bg_genogram"
    /\ endpoint \in {"analyze_audio", "analyze_file_direct"}
    /\ request = NoRequest
    /\ s3_client \in BOOLEAN
    /\ in_store = {}
    /\ fetched = <<>>
    /\ analysis = "returned"
    /\ uuids \in {2, 4}
    /\ \E g \in {0, uuids - 1}, b \in {0, uuids} :
         /\ tasks = <<[text |-> ExtractionResult.payload, genogram_id |-> g,
                       bodymap_id |-> b]>>
         /\ response = AnalyzeResponse(TRUE, ExtractionResult.payload, "", g, b)
    /\ drafts = {}
    /\ bg_status = BgIdle
    /\ ApiRestIdle

\* if genogram_id: try: generate_genogram_data, put_object except: print
BackgroundGenogram ==
    /\ pc = "bg_genogram"
    /\ IF tasks[1].genogram_id = 0
       THEN /\ bg_status' = [bg_status EXCEPT !.genogram = "skipped"]
            /\ pc' = "bg_bodymap"
            /\ UNCHANGED drafts
       ELSE \E out \in ArtifactOutcomes(s3_client) :
              /\ bg_status' = [bg_status EXCEPT !.genogram = out]
              /\ drafts' = IF out = "stored"
                           THEN drafts \cup {DraftKey(tasks[1].genogram_id)}
                           ELSE drafts
              /\ pc' = IF out \in {"failed_generate", "failed_store"}
                       THEN AfterGenogramFailure
                       ELSE "bg_bodymap"
    /\ UNCHANGED <<endpoint, request, s3_client, in_store, fetched, analysis,
                   response, uuids, tasks, apiUntouched>>

\* if bodymap_id: try: generate_bodymap_data, put_object except: print
BackgroundBodymap ==
    /\ pc = "bg_bodymap"
    /\ pc' = "bg_done"
    /\ IF tasks[1].bodymap_id = 0
       THEN /\ bg_status' = [bg_status EXCEPT !.bodymap = "skipped"]
            /\ UNCHANGED drafts
       ELSE \E out \in ArtifactOutcomes(s3_client) :
              /\ bg_status' = [bg_status EXCEPT !.bodymap = out]
              /\ drafts' = IF out = "stored"
                           THEN drafts \cup {DraftKey(tasks[1].bodymap_id)}
                           ELSE drafts
    /\ UNCHANGED <<endpoint, request, s3_client, in_store, fetched, analysis,
                   response, uuids, tasks, apiUntouched>>

NextBackground ==
    \/ BackgroundGenogram
    \/ BackgroundBodymap

SpecBackground == InitBackground /\ [][NextBackground]_vars

----------------------------------------------------------------------------
(* AIService._generate_with_retry *)

S_429 == <<52, 50, 57>>                  \* "429"
S_quota == <<113, 117, 111, 116, 97>>  \* "quota"
S_retry_in == <<114, 101, 116, 114, 121, 32, 105, 110, 32>>  \* "retry in "
Dot == 46
LowerS == 115

\* str.lower() on the letters A-Z
Lower(s) == [i \in 1..Len(s) |-> IF s[i] \in 65..90 THEN s[i] + 32 ELSE s[i]]

\* The test written `"429" in error_str or "quota"`: a non-empty string is
\* true.
RateLimitedTruthy(error_str) == Contains(S_429, error_str) \/ S_quota # <<>>

\* "429" in error_str or "quota" in error_str.lower()
RateLimited(error_str) ==
    Contains(S_429, error_str) \/ Contains(S_quota, Lower(error_str))

\* Where "retry in (\d+(\.\d+)?)s" matches with the text "retry in " at p:
\* the end of group 1, or 0.  The run of digits is taken whole: a shorter one
\* is followed by a digit, which is neither "." nor "s".
HintEnd(s, p) ==
    LET q == p + Len(S_retry_in) IN
    IF ~(q <= Len(s) /\ SubSeq(s, p, q - 1) = S_retry_in /\ IsDigit(s[q]))
    THEN 0
    ELSE LET e == DigitRunEnd(s, q) IN
         IF e + 2 <= Len(s) /\ s[e + 1] = Dot /\ IsDigit(s[e + 2])
            /\ DigitRunEnd(s, e + 2) < Len(s)
            /\ s[DigitRunEnd(s, e + 2) + 1] = LowerS
         THEN DigitRunEnd(s, e + 2)
         ELSE IF e < Len(s) /\ s[e + 1] = LowerS THEN e
         ELSE 0

HintStarts(s) == {p \in 1..Len(s) : HintEnd(s, p) # 0}

\* float(text) in tenths of a second, for a text with at most one decimal
TenthsOf(text) ==
    IF Dot \in Range(text)
    THEN LET d == CHOOSE i \in 1..Len(text) : text[i] = Dot
         IN 10 * DigitsValue(SubSeq(text, 1, d - 1)) + (text[d + 1] - 48)
    ELSE 10 * DigitsValue(text)

\* wait_time = 32; match = re.search(...); if match: wait_time =
\* float(match.group(1)) + 2        (in tenths of a second)
WaitTime(error_str) ==
    IF HintStarts(error_str) = {} THEN 320
    ELSE LET p == SetMin(HintStarts(error_str))
         IN TenthsOf(SubSeq(error_str, p + Len(S_retry_in),
                            HintEnd(error_str, p))) + 20

\* What model.generate_content does on a call: it returns the response or
\* raises an exception with one of these messages.

E_429 == <<52, 50, 57>>  \* "429"
E_Quota_hint == <<81, 117, 111, 116, 97, 44, 32, 114, 101, 116, 114, 121, 32, 105, 110, 32, 49, 50, 46, 53, 115>>  \* "Quota, retry in 12.5s"
E_429_hint == <<52, 50, 57, 32, 114, 101, 116, 114, 121, 32, 105, 110, 32, 55, 115>>  \* "429 retry in 7s"
E_quota_no_hint == <<113, 117, 111, 116, 97, 32, 114, 101, 116, 114, 121, 32, 105, 110, 32, 53, 32, 115>>  \* "quota retry in 5 s"
E_500 == <<53, 48, 48>>  \* "500"
E_hint_only == <<114, 101, 116, 114, 121, 32, 105, 110, 32, 55, 115>>  \* "retry in 7s"

Responded == <<>>

ErrorMessages == {E_429, E_Quota_hint, E_429_hint, E_quota_no_hint, E_500, E_hint_only}

\* The messages that carry the rate-limit signal, read off the texts above.
SignalMessages == {E_429, E_Quota_hint, E_429_hint, E_quota_no_hint}

\* The backend's answers to the successive calls of one _generate_with_retry.
InitRetry ==
    /\ pc = "gen_call"
    /\ backend \in [1..retries -> {Responded} \cup ErrorMessages]
    /\ attempt = 0
    /\ calls = 0
    /\ sleeps = <<>>
    /\ retry_result = NoRetryResult
    /\ file_contents = <<>>
    /\ up_idx = 0
    /\ polls = 0
    /\ remote = <<>>
    /\ tmp = <<>>
    /\ stage_calls = <<>>
    /\ delete_calls = <<>>
    /\ unlink_calls = <<>>
    /\ uploaded_files = <<>>
    /\ tmp_paths = <<>>
    /\ phase = 0
    /\ master_result = <<>>
    /\ phase_status = [i \in 1..7 |-> "pending"]
    /\ phase_keys = [i \in 1..7 |-> {}]
    /\ used_in = <<>>
    /\ CatIdle
    /\ ParseIdle
    /\ WriteIdle
    /\ RowIdle
    /\ ApiIdle
    /\ SheetIdle
    /\ PromptIdle

retryUntouched ==
    <<backend, file_contents, up_idx, polls, fileVars, phase, master_result,
      phase_status, phase_keys, used_in, catVars, parseVars, writeVars,
      rowVars, apiVars, sheetVars, promptVars>>

\* return model.generate_content(prompt_parts)
GenerateReturns ==
    /\ pc = "gen_call"
    /\ attempt < retries
    /\ backend[attempt + 1] = Responded
    /\ calls' = calls + 1
    /\ retry_result' = [kind |-> "returned", error |-> <<>>]
    /\ pc' = "gen_returned"
    /\ UNCHANGED <<attempt, sleeps, retryUntouched>>

\* The call raises a rate-limit error before the last attempt:
\* time.sleep(wait_time); continue
GenerateRetries ==
    /\ pc = "gen_call"
    /\ attempt < retries
    /\ backend[attempt + 1] # Responded
    /\ RateLimited(backend[attempt + 1])
    /\ attempt < retries - 1
    /\ calls' = calls + 1
    /\ sleeps' = Append(sleeps, WaitTime(backend[attempt + 1]))
    /\ attempt' = attempt + 1
    /\ UNCHANGED <<pc, retry_result, retryUntouched>>

\* raise e: any other error, or a rate-limit error on the last attempt
GenerateRaises ==
    /\ pc = "gen_call"
    /\ attempt < retries
    /\ backend[attempt + 1] # Responded
    /\ ~(RateLimited(backend[attempt + 1]) /\ attempt < retries - 1)
    /\ calls' = calls + 1
    /\ retry_result' = [kind |-> "raised", error |-> backend[attempt + 1]]
    /\ pc' = "gen_raised"
    /\ UNCHANGED <<attempt, sleeps, retryUntouched>>

NextRetry ==
    \/ GenerateReturns
    \/ GenerateRetries
    \/ GenerateRaises

SpecRetry == InitRetry /\ [][NextRetry]_vars

----------------------------------------------------------------------------
(* main.py: write_to_sheets, with create_and_write_assessment and the       *)
(* creation of the standalone meeting documents (sheets_service.py)         *)

MaxWriteCount == 2

\* dict.get(key, default)
Get(dict, key, default) == IF key \in DOMAIN dict THEN dict[key] ELSE default

\* AnalyzeResponse(success=result.get("success", False), data=result,
\*                 error=result.get("error"))
ResultResponse(result) ==
    AnalyzeResponse(Get(result, "success", FALSE), result,
                    Get(result, "error", ""), 0, 0)

\* except Exception as e: return AnalyzeResponse(success=False, error=str(e))
SheetsFailure(error) == AnalyzeResponse(FALSE, <<>>, error, 0, 0)

\* What the row writers return (RowSuccess, RowFailure), as the dict it is.
AppendOk == [success |-> TRUE, sheet_url |-> "master", write_count |-> 1]
AppendFailed == [success |-> FALSE, error |-> "api", write_count |-> 0]

\* A row writer raises without the client; with it, it returns one of the two.
RowOutcomes(has_client) ==
    IF has_client THEN {AppendOk, AppendFailed} ELSE {<<>>}

\* write_data returns the count of queued cells or raises (no client, mapping
\* not loaded, the spreadsheet does not open).
WriteDataOutcomes(has_client) ==
    {[raised |-> TRUE, count |-> 0]} \cup
    (IF has_client
     THEN {[raised |-> FALSE, count |-> c] : c \in 0..MaxWriteCount}
     ELSE {})

\* drive_service.copy_spreadsheet: (None, None) without the Drive client or
\* when the copy raises, else the id and the link of the new file.
CopyOutcomes == {"none", "created"}

\* drive_service.create_empty_spreadsheet(new_filename, target_folder_id).
\* DriveService has no method of this name in drive_service.py, where the
\* call raises AttributeError ("raised"); a method that creates the file
\* returns (None, None) or the id and the link, as copy_spreadsheet does.
CreateEmptyOutcomes == {"raised", "none", "created"}

\* The steps of create_and_write_..._meeting on the new file: the client is
\* missing, the template has no sheet of the expected name, a call raises,
\* or all of them return.
SheetSteps(has_client) ==
    IF has_client THEN {"no_template_sheet", "raised", "written"}
    ELSE {"no_client"}

\* create_and_write_assessment after the second write_data raised, had the
\* call no try statement of its own: the outer except returns the failure.
SecondPassFailedOuter(count1) ==
    [success |-> FALSE, error |-> "write", sheet_url |-> "new_url"]

\* except Exception as e2: print(...), then the return of the success
SecondPassFailed(count1) ==
    [success |-> TRUE, sheet_url |-> "new_url", write_count |-> count1,
     spreadsheet_id |-> "new_id"]

\* create_and_write_assessment, from the copy of the template on
CreateAssessmentResult(copy, w1, w2) ==
    IF copy = "none" THEN [success |-> FALSE, error |-> "create"]
    ELSE IF w1.raised
    THEN [success |-> FALSE, error |-> "write", sheet_url |-> "new_url"]
    ELSE IF w2.raised THEN SecondPassFailed(w1.count)
    ELSE [success |-> TRUE, sheet_url |-> "new_url",
          write_count |-> w1.count + w2.count, spreadsheet_id |-> "new_id"]

\* create_and_write_management_meeting / create_and_write_service_meeting,
\* after create_empty_spreadsheet has returned
CreateMeetingResult(created, step, count) ==
    IF created = "none" THEN [success |-> FALSE, error |-> "create"]
    ELSE IF step = "no_template_sheet"
    THEN [success |-> FALSE, error |-> "template"]
    ELSE IF step \in {"no_client", "raised"}
    THEN [success |-> FALSE, error |-> "write", sheet_url |-> "standalone"]
    ELSE [success |-> TRUE, sheet_url |-> "standalone", write_count |-> count,
          spreadsheet_id |-> "new_id"]

\* The merge with the standalone document's URL not taken over.
MergeServiceKeep(append, create) == append

\* result = append_result; if create_result.get("success"):
\*     result["sheet_url"] = create_result.get("sheet_url")
MergeService(append, create) ==
    IF Get(create, "success", FALSE)
    THEN [sheet_url |-> Get(create, "sheet_url", "")] @@ append
    ELSE append

\* the same, with individual_file_created and individual_file_id
MergeManagement(append, create) ==
    IF Get(create, "success", FALSE)
    THEN [sheet_url |-> Get(create, "sheet_url", ""),
          individual_file_created |-> TRUE,
          individual_file_id |-> Get(create, "spreadsheet_id", "")] @@ append
    ELSE append

SheetsRequests ==
    [write_mode : {"mapping", "append", "create"},
     meeting_type : {"", "service_meeting", "management_meeting", "assessment"},
     spreadsheet_id : {"", "sid"}]

\* The ids the backend variables may hold.
ConfigNames == {"assessment_template", "assessment_folder", "management_folder"}

InitSheets ==
    /\ pc = "sheets_call"
    /\ endpoint = "write_to_sheets"
    /\ request \in SheetsRequests
    /\ configured \in SUBSET ConfigNames
    /\ client \in BOOLEAN
    /\ data = <<>>
    /\ append_result = <<>>
    /\ create_result = <<>>
    /\ creation = "none"
    /\ writes = <<>>
    /\ new_docs = {}
    /\ response = NoResponse
    /\ s3_client = FALSE
    /\ in_store = {}
    /\ fetched = <<>>
    /\ analysis = "none"
    /\ uuids = 0
    /\ tasks = <<>>
    /\ drafts = {}
    /\ bg_status = BgIdle
    /\ RowWriteIdle
    /\ RowIdle
    /\ RetryIdle
    /\ PromptIdle
    /\ CatIdle
    /\ ParseIdle
    /\ ExtractIdle

sheetsUntouched ==
    <<endpoint, request, configured, s3_client, in_store, fetched, analysis,
      uuids, tasks, drafts, bg_status, catVars, parseVars, writeVars, exVars,
      rowVars, retryVars, promptVars>>

\* write_mode "create": the template copied and filled in two passes
WriteToSheetsCreate ==
    /\ pc = "sheets_call"
    /\ request.write_mode = "create"
    /\ pc' = "sheets_done"
    /\ IF ~({"assessment_template", "assessment_folder"} \subseteq configured)
       THEN /\ response' = SheetsFailure("not configured")
            /\ UNCHANGED <<create_result, creation, writes, new_docs>>
       ELSE \E copy \in CopyOutcomes,
               w1 \in WriteDataOutcomes(client), w2 \in WriteDataOutcomes(client) :
              /\ creation' = "returned"
              /\ new_docs' = IF copy = "created" THEN {"new_id"} ELSE {}
              /\ writes' = IF copy = "none" THEN <<>>
                           ELSE IF w1.raised THEN <<w1>> ELSE <<w1, w2>>
              /\ create_result' = CreateAssessmentResult(copy, w1, w2)
              /\ response' = ResultResponse(create_result')
    /\ UNCHANGED <<append_result, sheetsUntouched>>

\* write_mode "append", service_meeting: the row, then the standalone
\* document inside a try statement of its own
WriteToSheetsService ==
    /\ pc = "sheets_call"
    /\ request.write_mode = "append"
    /\ request.meeting_type = "service_meeting"
    /\ pc' = "sheets_done"
    /\ \E row \in RowOutcomes(client) :
         IF row = <<>>
         THEN /\ response' = SheetsFailure("Google Sheets client not initialized")
              /\ UNCHANGED <<append_result, create_result, creation, new_docs>>
         ELSE \E created \in CreateEmptyOutcomes, step \in SheetSteps(client) :
                /\ append_result' = row
                /\ creation' = IF created = "raised" THEN "raised" ELSE "returned"
                /\ new_docs' = IF created = "created" THEN {"new_id"} ELSE {}
                /\ create_result' = IF created = "raised" THEN <<>>
                                    ELSE CreateMeetingResult(created, step, 1)
                /\ response' = ResultResponse(MergeService(row, create_result'))
    /\ UNCHANGED <<writes, sheetsUntouched>>

\* write_mode "append", management_meeting: the row, then, with the folder
\* configured, the standalone document
WriteToSheetsManagement ==
    /\ pc = "sheets_call"
    /\ request.write_mode = "append"
    /\ request.meeting_type = "management_meeting"
    /\ pc' = "sheets_done"
    /\ \E row \in RowOutcomes(client) :
         IF row = <<>>
         THEN /\ response' = SheetsFailure("Google Sheets client not initialized")
              /\ UNCHANGED <<append_result, create_result, creation, new_docs>>
         ELSE IF "management_folder" \notin configured
         THEN /\ append_result' = row
              /\ response' = ResultResponse(MergeManagement(row, <<>>))
              /\ UNCHANGED <<create_result, creation, new_docs>>
         ELSE \E created \in CreateEmptyOutcomes, step \in SheetSteps(client),
                 count \in 1..MaxWriteCount :
                /\ append_result' = row
                /\ creation' = IF created = "raised" THEN "raised" ELSE "returned"
                /\ new_docs' = IF created = "created" THEN {"new_id"} ELSE {}
                /\ create_result' = IF created = "raised" THEN <<>>
                                    ELSE CreateMeetingResult(created, step, count)
                /\ response' =
                     IF created = "raised"
                     THEN SheetsFailure("create_empty_spreadsheet")
                     ELSE ResultResponse(MergeManagement(row, create_result'))
    /\ UNCHANGED <<writes, sheetsUntouched>>

\* write_mode "append", any other meeting type: the row only
WriteToSheetsAppend ==
    /\ pc = "sheets_call"
    /\ request.write_mode = "append"
    /\ request.meeting_type \notin {"service_meeting", "management_meeting"}
    /\ pc' = "sheets_done"
    /\ \E row \in RowOutcomes(client) :
         IF row = <<>>
         THEN /\ response' = SheetsFailure("Google Sheets client not initialized")
              /\ UNCHANGED append_result
         ELSE /\ append_result' = row
              /\ response' = ResultResponse(row)
    /\ UNCHANGED <<create_result, creation, writes, new_docs, sheetsUntouched>>

\* write_mode "mapping": write_data on the spreadsheet named by the request
WriteToSheetsMapping ==
    /\ pc = "sheets_call"
    /\ request.write_mode = "mapping"
    /\ pc' = "sheets_done"
    /\ IF request.spreadsheet_id = ""
       THEN /\ response' = SheetsFailure("Spreadsheet ID required for mapping mode")
            /\ UNCHANGED writes
       ELSE \E w \in WriteDataOutcomes(client) :
              /\ writes' = <<w>>
              /\ response' = IF w.raised THEN SheetsFailure("write_data")
                             ELSE AnalyzeResponse(TRUE, [written_cells |-> w.count],
                                                  "", 0, 0)
    /\ UNCHANGED <<append_result, create_result, creation, new_docs,
                   sheetsUntouched>>

NextSheets ==
    \/ WriteToSheetsCreate
    \/ WriteToSheetsService
    \/ WriteToSheetsManagement
    \/ WriteToSheetsAppend
    \/ WriteToSheetsMapping

SpecSheets == InitSheets /\ [][NextSheets]_vars

----------------------------------------------------------------------------
(* AIService._generate_partial_prompt *)

MaxFields == 2

\* The lists of cell names _generate_partial_prompt defines (lines 304-314),
\* as sequences of code-point sequences: "BC22" is <<66, 67, 50, 50>>.
\* ai_service.py:304  BC22 BM22 BC30 BM30
body_challenges ==
    << <<66, 67, 50, 50>>,
       <<66, 77, 50, 50>>,
       <<66, 67, 51, 48>>,
       <<66, 77, 51, 48>> >>

\* ai_service.py:306  BC38 BM38 BC47 BM47 BC59 BM59
activity_challenges ==
    << <<66, 67, 51, 56>>,
       <<66, 77, 51, 56>>,
       <<66, 67, 52, 55>>,
       <<66, 77, 52, 55>>,
       <<66, 67, 53, 57>>,
       <<66, 77, 53, 57>> >>

\* ai_service.py:308  BC68 BM68
participation_challenges ==
    << <<66, 67, 54, 56>>,
       <<66, 77, 54, 56>> >>

\* ai_service.py:310  BC72 BM72 BC76 BM76
other_challenges ==
    << <<66, 67, 55, 50>>,
       <<66, 77, 55, 50>>,
       <<66, 67, 55, 54>>,
       <<66, 77, 55, 54>> >>

\* ai_service.py:312  BX22 BX32 BX42 BX52 BX64 BX72
outlooks ==
    << <<66, 88, 50, 50>>,
       <<66, 88, 51, 50>>,
       <<66, 88, 52, 50>>,
       <<66, 88, 53, 50>>,
       <<66, 88, 54, 52>>,
       <<66, 88, 55, 50>> >>

\* ai_service.py:314  N76 U76 Z76 AE76 AK76 AO76
checkboxes ==
    << <<78, 55, 54>>,
       <<85, 55, 54>>,
       <<90, 55, 54>>,
       <<65, 69, 55, 54>>,
       <<65, 75, 55, 54>>,
       <<65, 79, 55, 54>> >>

\* A field name that holds a slot name without being one: "BC22" followed by
\* the two characters of K_name.
K_slot_like == <<66, 67, 50, 50>> \o K_name

\* full_mapping, as _load_all_mappings returns it
FullMapping == parse_mapping(MappingTextA)

\* info = mapping_dict.get(key, {}); "options" in info and info["options"]
OptionsOf(key, mapping) ==
    IF \E k \in 1..Len(mapping) : mapping[k].name = key
    THEN mapping[CHOOSE k \in 1..Len(mapping) : mapping[k].name = key].options
    ELSE <<>>

\* instructions: one line per field, with its options when it has any
Instructions(flds, mapping) ==
    [i \in 1..Len(flds) |-> [key |-> flds[i], options |-> OptionsOf(flds[i], mapping)]]

\* special_instructions, taken as set(special_instructions): the fields whose
\* name holds the name of a checkbox cell
SpecialInstructions(flds) ==
    {flds[i] : i \in {j \in 1..Len(flds) :
                        \E c \in 1..Len(checkboxes) : Contains(checkboxes[c], flds[j])}}

\* any(f in fields for f in cluster)
AnyIn(cluster, flds) == \E c \in 1..Len(cluster) : cluster[c] \in Range(flds)

Block(present, title) == IF present THEN <<title>> ELSE <<>>

\* sequential_logic: the blocks appended, in the order of the four tests
SequentialLogic(flds) ==
    Block(AnyIn(body_challenges, flds), "body")
        \o Block(AnyIn(activity_challenges, flds), "activity")
        \o Block(AnyIn(outlooks, flds), "outlooks")
        \o Block(AnyIn(participation_challenges, flds), "participation")

\* _generate_partial_prompt(fields, mapping_dict, phase_name): the parts of
\* the returned text that depend on the fields
generate_partial_prompt(flds, mapping) ==
    [instructions |-> Instructions(flds, mapping),
     special |-> SpecialInstructions(flds),
     sequential |-> SequentialLogic(flds)]

\* Field names of a group: one cell name or two of each list, a name with
\* options, a name without, and a name that holds a slot name.
PromptFieldNames ==
    { body_challenges[1], body_challenges[4], activity_challenges[3],
      participation_challenges[1], other_challenges[1], other_challenges[4],
      outlooks[1], checkboxes[1], K_name, K_address, K_slot_like }

NoPrompt == [instructions |-> <<>>, special |-> {}, sequential |-> <<>>]

InitPrompt ==
    /\ pc = "prompt_call"
    /\ fields \in UNION {[1..n -> PromptFieldNames] : n \in 0..MaxFields}
    /\ prompt = NoPrompt
    /\ CatIdle
    /\ ParseIdle
    /\ WriteIdle
    /\ ExtractIdle
    /\ RowIdle
    /\ ApiIdle
    /\ RetryIdle
    /\ SheetIdle

GeneratePartialPrompt ==
    /\ pc = "prompt_call"
    /\ prompt' = generate_partial_prompt(fields, FullMapping)
    /\ pc' = "prompt_done"
    /\ UNCHANGED <<fields, catVars, parseVars, writeVars, exVars, rowVars,
                   apiVars, retryVars, sheetVars>>

NextPrompt == GeneratePartialPrompt

SpecPrompt == InitPrompt /\ [][NextPrompt]_vars

----------------------------------------------------------------------------
(* Claims about extract_assessment_info *)

Exited == pc \in {"ex_returned", "ex_raised"}

\* The files for which genai.upload_file has returned a handle
Handles == {f \in Files : remote[f] # "none"}

Phases == 1..7

OkPhases == {i \in Phases : phase_status[i] = "ok"}

FailedPhases == {i \in Phases : phase_status[i] = "failed"}

\* C1: on every exit path of extract_assessment_info (return or raise),
\* every file for which the backend returned a handle has had delete_file
\* called exactly once and os.unlink called exactly once on its temporary
\* file.
C1_ReleasedExactlyOnce ==
    Exited =>
        \A f \in Handles : delete_calls[f] = 1 /\ unlink_calls[f] = 1

\* C2 as stated: when the call has returned, every non-empty phase has been
\* executed, the keys returned by the phases that succeeded are in the merged
\* record, and no field of a failed phase is in the merged record.
C2_FailedPhaseFieldsAbsent ==
    pc = "ex_returned" =>
        /\ \A i \in Phases : phase_status[i] # "pending"
        /\ \A i \in OkPhases : phase_keys[i] \subseteq DOMAIN master_result
        /\ \A k \in FailedPhases :
              Range(field_groups[k]) \cap DOMAIN master_result = {}

\* C2: the call raises only while staging, before any phase, so once the
\* phases have begun it returns normally whatever phases fail; every
\* non-empty phase has then been executed, the keys returned by
\* the phases that succeeded are in the merged record, and a failed phase has
\* put nothing into it: the record holds exactly the keys the successful
\* phases returned, so a field of a failed phase is in it only if the
\* response of another phase carried it.
C2_FailureIsolated ==
    /\ pc = "ex_raised" => phase = 0
    /\ pc = "ex_returned" =>
        /\ \A i \in Phases :
              /\ phase_status[i] # "pending"
              /\ phase_status[i] = "skipped" <=> field_groups[i] = <<>>
        /\ \A i \in OkPhases : phase_keys[i] \subseteq DOMAIN master_result
        /\ DOMAIN master_result = UNION {phase_keys[i] : i \in OkPhases}

\* A return after a phase failed between two phases that succeeded and
\* returned fields, none of the failed phase's fields being in the record.
C2_Witness ==
    /\ pc = "ex_returned"
    /\ \E k \in FailedPhases :
          /\ \E i \in OkPhases : i < k /\ phase_keys[i] # {}
          /\ \E j \in OkPhases : j > k /\ phase_keys[j] # {}
          /\ Range(field_groups[k]) \cap DOMAIN master_result = {}

\* C3: no file is staged more than once, and from the first phase on every
\* input file has been staged exactly once: the number of upload_file calls
\* is the number of input files, however many phases have run.
C3_StagedOnce ==
    /\ \A f \in Files : stage_calls[f] <= 1
    /\ (pc \in {"ex_phases", "ex_returned"} \/ \E f \in Files : used_in[f] # {}) =>
          /\ \A f \in Files : stage_calls[f] = 1
          /\ Len(uploaded_files) = Len(file_contents)

\* A return after two files were staged and two phases called the backend.
C3_Witness ==
    /\ pc = "ex_returned"
    /\ Len(file_contents) = 2
    /\ Cardinality(OkPhases \cup FailedPhases) >= 2
    /\ \A f \in Files : stage_calls[f] = 1

\* C4: a backend call references only handles in state staged (never one
\* that is unstaged or released); delete_file is called only on handles that
\* were staged, and only once the phase loop is over; when the call has
\* returned every handle is released.
C4_Lifecycle ==
    /\ \A f \in Files : used_in[f] \subseteq {"staged"}
    /\ \A f \in Files : delete_calls[f] > 0 => f \in Handles /\ Exited
    /\ pc = "ex_returned" => \A f \in Files : HandleState(f) = "released"

\* A return where a handle was used by a phase and then released.
C4_Witness ==
    /\ pc = "ex_returned"
    /\ \E f \in Files : used_in[f] = {"staged"} /\ delete_calls[f] = 1

----------------------------------------------------------------------------
(* Claims about the categorizer *)

RECURSIVE SumLens(_, _)
SumLens(groups, g) == IF g = 0 THEN 0 ELSE Len(groups[g]) + SumLens(groups, g - 1)

GroupsHolding(groups, name) == {g \in 1..7 : name \in Range(groups[g])}

MatchingGroups(key) == {g \in 1..7 : MatchesAny(KeywordsOf(g), key)}

\* Position of a group in the order in which the loop body tests the groups.
Precedence == <<6, 7, 5, 4, 3, 2, 1>>
Rank(g) == CHOOSE r \in 1..7 : Precedence[r] = g

\* C5: the groups _categorize_fields returns have sizes that sum to the
\* number of input names, and every input name is in exactly one group.
C5_Partition ==
    pc = "cat_done" =>
        /\ SumLens(field_groups, 7) = Len(all_keys)
        /\ \A n \in Range(all_keys) :
              Cardinality(GroupsHolding(field_groups, n)) = 1

\* A list holding a name with keywords of two groups, a name with none and
\* has been categorized.
C5_Witness ==
    /\ pc = "cat_done"
    /\ Len(all_keys) = MaxKeys
    /\ \E n \in Range(all_keys) : Cardinality(MatchingGroups(n)) >= 2
    /\ \E n \in Range(all_keys) : MatchingGroups(n) = {}

\* C6: a name with keywords of several groups is placed in the group tested
\* first in the order G6, G7, G5, G4, G3, G2, G1 (not in the lowest-numbered
\* one), and a name with no keyword is placed in the last group.
C6_Precedence ==
    pc = "cat_done" =>
        \A n \in Range(all_keys) :
            \A g \in GroupsHolding(field_groups, n) :
                IF MatchingGroups(n) = {} THEN g = 7
                ELSE /\ g \in MatchingGroups(n)
                     /\ \A h \in MatchingGroups(n) : Rank(g) <= Rank(h)

\* A categorized name with keywords of two groups sits in the higher-numbered
\* of them, and a name without keywords sits in group 7.
C6_Witness ==
    /\ pc = "cat_done"
    /\ \E n \in Range(all_keys) :
          /\ Cardinality(MatchingGroups(n)) >= 2
          /\ \E g \in GroupsHolding(field_groups, n) :
                \E h \in MatchingGroups(n) : h < g
    /\ \E n \in Range(all_keys) :
          MatchingGroups(n) = {} /\ GroupsHolding(field_groups, n) = {7}

----------------------------------------------------------------------------
(* Claims about the parser *)

\* C10: for a well-formed line name:CELL(opt1,opt2,...) parse_mapping yields
\* exactly one entry, keyed by the name, with cell CELL and with the options
\* in input order, trimmed and without the empty tokens.
C10_WellFormedLine ==
    (pc = "parse_done" /\ Len(src_lines) = 1 /\ src_lines[1].wf) =>
        parse_result =
            << [name |-> Strip(src_lines[1].name),
                cell |-> src_lines[1].cell,
                options |-> SelectSeq(StripAll(src_lines[1].opts), NonEmpty)] >>

\* A parsed line whose name is padded and whose options hold a padded and an
\* empty token.
C10_Witness ==
    /\ pc = "parse_done"
    /\ Len(src_lines) = 1
    /\ src_lines[1].wf
    /\ src_lines[1].name # Strip(src_lines[1].name)
    /\ src_lines[1].opts = <<T_other_padded, <<>>, T_phone>>
    /\ Len(parse_result) = 1
    /\ parse_result[1].options = <<<<20182>>, T_phone>>

\* The lines that hold the separator and no cell address after it.
NoCellLines == {L_no_cell, L_lower_cell, L_cell_in_name, L_paren_colon}

\* The text in which line i is replaced by a blank line.
Blanked(i) == Join(Texts([src_lines EXCEPT ![i] = L_blank]), NL)

Parenthesised(text) ==
    LET line == Strip(text)
    IN line # <<>> /\ line[1] = FWLParen /\ line[Len(line)] = FWRParen

\* C11 as stated: a line with the separator and no cell address after it
\* leaves the result what it is with a blank line in its place: it adds no
\* entry, and the entries of the other lines, before it and after it, are
\* the same.
C11_NoCellLineIgnored ==
    pc = "parse_done" =>
        \A i \in 1..Len(src_lines) :
            src_lines[i] \in NoCellLines =>
                parse_result = parse_mapping(Blanked(i))

\* C11: a line with the separator and no cell address after it, unless it is
\* enclosed in full-width parentheses, leaves the result what it is with a
\* blank line in its place: it adds no entry under its name, and the entries
\* of the other lines, before it and after it, are the same.
C11_NoCellLineDropped ==
    pc = "parse_done" =>
        \A i \in 1..Len(src_lines) :
            (src_lines[i] \in NoCellLines /\ ~Parenthesised(src_lines[i].text)) =>
                /\ parse_result = parse_mapping(Blanked(i))
                /\ (\A j \in 1..Len(src_lines) : src_lines[j] \in NoCellLines) =>
                      parse_result = <<>>

\* A line without a cell address before a well-formed line, whose entry is
\* the whole result.
C11_Witness ==
    /\ pc = "parse_done"
    /\ Len(src_lines) = 2
    /\ src_lines[1] = L_lower_cell
    /\ src_lines[2].wf
    /\ Len(parse_result) = 1
    /\ parse_result[1].name = Strip(src_lines[2].name)
    /\ parse_result[1].cell = src_lines[2].cell

----------------------------------------------------------------------------
(* Claims about write_data *)

Resolved == pc \in {"write_batch", "write_fallback", "write_returned"} /\ open_calls = 1

\* C7: every mapping field is resolved by the exact key of the flattened
\* record when there is one; the containment fallback (first related key in
\* iteration order) is used only when there is no exact key.
C7_ExactFirst ==
    Resolved =>
        \A k \in 1..Len(resolved) :
            LET r == resolved[k] IN
            /\ HasKey(flat_data, r.name) =>
                  (r.found /\ r.via = "exact" /\ r.value = Lookup(flat_data, r.name))
            /\ r.via = "contain" =>
                  /\ ~HasKey(flat_data, r.name)
                  /\ ContainMatches(r.name, flat_data) # {}
                  /\ r.value = flat_data[SetMin(ContainMatches(r.name, flat_data))].value
            /\ ~r.found => (~HasKey(flat_data, r.name)
                            /\ ContainMatches(r.name, flat_data) = {})

\* A field resolved while the record held, before its exact key, a key
\* containing the field name with another value.
C7_Witness ==
    /\ Resolved
    /\ \E k \in 1..Len(resolved) :
          /\ HasKey(flat_data, resolved[k].name)
          /\ \E i, j \in 1..Len(flat_data) :
                /\ i < j
                /\ flat_data[j].key = resolved[k].name
                /\ flat_data[i].key # resolved[k].name
                /\ Contains(resolved[k].name, flat_data[i].key)
                /\ flat_data[i].value # flat_data[j].value
                /\ resolved[k].value = flat_data[j].value

WrittenCells ==
    {cells_to_update[k].cell : k \in 1..Len(cells_to_update)}
        \cup {batch_log[b][k].range : b \in 1..Len(batch_log), k \in 1..Len(cells_to_update)}
        \cup {cell_log[k].cell : k \in 1..Len(cell_log)}

WrittenValues ==
    {cells_to_update[k].value : k \in 1..Len(cells_to_update)}
        \cup {batch_log[b][k].value : b \in 1..Len(batch_log), k \in 1..Len(cells_to_update)}
        \cup {cell_log[k].value : k \in 1..Len(cell_log)}

Skippable(r) == ~r.found \/ r.value = <<>> \/ r.value = BlankSentinel

\* C8: a mapping field whose resolved value is the empty string or the
\* placeholder is never queued: its cell is in no queue entry, in no batch
\* and in no per-cell write, and no queued or written value is empty or the
\* placeholder.
C8_NoBlankQueued ==
    /\ \A k \in 1..Len(resolved) :
          Skippable(resolved[k]) => resolved[k].cell \notin WrittenCells
    /\ <<>> \notin WrittenValues
    /\ BlankSentinel \notin WrittenValues

\* The batch and the per-cell writes have run for a record in which one
\* field resolved to the placeholder and another field was written.
C8_Witness ==
    /\ pc = "write_returned"
    /\ batch_failed
    /\ cell_log # <<>>
    /\ \E k \in 1..Len(resolved) :
          resolved[k].found /\ resolved[k].value = BlankSentinel

\* C9: when the batch write fails, one individual write is attempted for each
\* queued cell, in order, whether or not earlier ones failed, and the call
\* returns normally.
C9_FallbackAttemptsAll ==
    batch_failed =>
        /\ pc \in {"write_fallback", "write_returned"}
        /\ pc = "write_fallback" =>
              (fb_idx <= Len(cells_to_update) /\ Len(cell_log) = fb_idx - 1)
        /\ pc = "write_returned" =>
              /\ write_result.kind = "count"
              /\ Len(cell_log) = Len(cells_to_update)
              /\ \A k \in 1..Len(cell_log) :
                    /\ cell_log[k].cell = cells_to_update[k].cell
                    /\ cell_log[k].value = cells_to_update[k].value

\* The call has returned after a failed batch of two cells, the first of
\* whose individual writes failed.
C9_Witness ==
    /\ pc = "write_returned"
    /\ batch_failed
    /\ Len(cells_to_update) >= 2
    /\ Len(cell_log) = Len(cells_to_update)
    /\ ~cell_log[1].ok

----------------------------------------------------------------------------
(* Claims about the row writers *)

\* The flattened keys related to header cell i by containment, either way.
RelatedKeys(i) ==
    {k \in 1..Len(flat_data) :
        Contains(flat_data[k].key, headers[i]) \/ Contains(headers[i], flat_data[k].key)}

\* C12: when write_service_meeting_to_row reports success it has appended
\* exactly one row; the row has one cell per header cell; cell i holds the
\* value of the first key of the flattened record related to header i by
\* containment in either direction, and is empty when no key is related. A
\* call that reports a failure has appended nothing.
C12_RowAlignedToHeaders ==
    pc = "srow_done" =>
        IF row_result.success
        THEN /\ Len(appended) = 1
             /\ Len(appended[1]) = Len(headers)
             /\ \A i \in 1..Len(headers) :
                   IF RelatedKeys(i) = {} THEN appended[1][i] = <<>>
                   ELSE \E k \in RelatedKeys(i) :
                           /\ \A j \in RelatedKeys(i) : k <= j
                           /\ appended[1][i] = flat_data[k].value
        ELSE appended = <<>>

\* A row for a header related to two keys with different values, the first
\* of which it holds, beside a header no key is related to.
C12_Witness ==
    /\ pc = "srow_done"
    /\ row_result.success
    /\ headers = <<K_user_name, H_date>>
    /\ Len(flat_data) = 2
    /\ Cardinality(RelatedKeys(1)) = 2
    /\ flat_data[1].value # flat_data[2].value
    /\ appended = << <<flat_data[1].value, <<>>>> >>

\* The data row of a management-meeting call that reported success
DataRow == appended[Len(appended)]

\* What the extracted meeting_date alone gives the date cell
ExtractedDateCell ==
    IF ~HasKey(data, "meeting_date") THEN PyStr(<<>>)
    ELSE IF Lookup(data, "meeting_date").t = "str"
    THEN PyStr(FormatDate(Lookup(data, "meeting_date").s))
    ELSE Lookup(data, "meeting_date")

ExplicitPlaceAndParticipantsWin(i) ==
    /\ (headers[i] = KW_participants /\ participants # <<>>) =>
          DataRow[i] = PyStr(participants)
    /\ (headers[i] = DefaultHeaders[2] /\ place # <<>>) =>
          DataRow[i] = PyStr(place)
    /\ (headers[i] = KW_place_sharing /\ place # <<>>) =>
          /\ DataRow[i].t = "str"
          /\ Len(DataRow[i].s) >= Len(PlaceLabel \o place)
          /\ SubSeq(DataRow[i].s, 1, Len(PlaceLabel \o place)) = PlaceLabel \o place

\* C13 as stated: in the row write_management_meeting_to_row appends, an
\* explicit date_str and an explicit time_str are used in the date cell when
\* the record also holds a meeting_date, and an explicit place and explicit
\* participants are used in their cells.
C13_ExplicitDateTimeUsed ==
    (pc = "mrow_done" /\ row_result.success) =>
        \A i \in 1..Len(headers) :
            /\ (Contains(KW_date, headers[i]) /\ HasKey(data, "meeting_date")) =>
                  /\ date_str # <<>> => DataRow[i] = PyStr(FormatDate(date_str))
                  /\ time_str # <<>> =>
                        DataRow[i].t = "str" /\ Contains(time_str, DataRow[i].s)
            /\ ExplicitPlaceAndParticipantsWin(i)

\* C13: in the row write_management_meeting_to_row appends, the date cell
\* holds the explicit date_str (rewritten as year, month, day when it
\* parses) whenever date_str is not empty, whatever meeting_date the record
\* holds; with an empty date_str it holds what the extracted meeting_date
\* gives, whether or not time_str is supplied; an explicit place and
\* explicit participants are used in their cells in place of the extracted
\* ones.
C13_ExplicitArgsWin ==
    (pc = "mrow_done" /\ row_result.success) =>
        /\ Len(DataRow) = Len(headers)
        /\ \A i \in 1..Len(headers) :
            /\ Contains(KW_date, headers[i]) =>
                  DataRow[i] = IF date_str # <<>> THEN PyStr(FormatDate(date_str))
                               ELSE ExtractedDateCell
            /\ ExplicitPlaceAndParticipantsWin(i)

\* A row for explicit date, place and participants, the record holding
\* other values for all three.
C13_Witness ==
    /\ pc = "mrow_done"
    /\ row_result.success
    /\ headers = DefaultHeaders
    /\ date_str = D_explicit
    /\ place = P_room
    /\ participants = V_sato
    /\ HasKey(data, "meeting_date") /\ HasKey(data, "place")
    /\ HasKey(data, "participants")
    /\ Lookup(data, "meeting_date") = PyStr(D_extracted)
    /\ Lookup(data, "place") = PyStr(P_home)
    /\ Lookup(data, "participants") = PyStr(V_tanaka)
    /\ DataRow[1] = PyStr(<<50, 48, 50, 54, 24180, 48, 49, 26376, 49, 55, 26085>>)
    /\ DataRow[2] = PyStr(P_room)
    /\ DataRow[3] = PyStr(V_sato)

----------------------------------------------------------------------------
(* Claims about the operations of main.py *)

\* C14: every top-level operation returns a structured success/failure
\* object for every failure of an underlying service; no exception leaves a
\* handler, the presigned-URL and direct-upload operations excepted.
C14_NoExceptionEscapes ==
    response.kind = "raised" =>
        endpoint \in {"get_presigned_url", "upload_file_direct"}

\* C20: an "assessment" request with at least one accessible file, once the
\* extraction has returned, is answered with success, the merged record and
\* two fresh draft ids, and the background task keyed by those ids has been
\* added.
C20_AssessmentAnswered ==
    ( /\ pc = "api_done"
      /\ endpoint \in {"analyze_audio", "analyze_file_direct"}
      /\ request.analysis_type = "assessment"
      /\ fetched # <<>>
      /\ analysis = "returned" )
    => /\ response.kind = "returned"
       /\ response.success
       /\ response.data = ExtractionResult.payload
       /\ response.genogram_draft_id # 0
       /\ response.bodymap_draft_id # 0
       /\ response.genogram_draft_id # response.bodymap_draft_id
       /\ \E i \in 1..Len(tasks) :
            /\ tasks[i].genogram_id = response.genogram_draft_id
            /\ tasks[i].bodymap_id = response.bodymap_draft_id

\* C19: in run_background_generation a failure while generating or storing
\* one artifact is caught and the other artifact is still generated and
\* stored as its own calls allow; the primary response stays what it was.
C19_ArtifactsIsolated ==
    pc = "bg_done" =>
        /\ tasks[1].genogram_id # 0 => bg_status.genogram \in Attempted
        /\ tasks[1].bodymap_id # 0 => bg_status.bodymap \in Attempted
        /\ bg_status.genogram = "stored" <=>
               DraftKey(tasks[1].genogram_id) \in drafts
        /\ bg_status.bodymap = "stored" <=>
               DraftKey(tasks[1].bodymap_id) \in drafts
        /\ response = AnalyzeResponse(TRUE, ExtractionResult.payload, "",
                                      tasks[1].genogram_id, tasks[1].bodymap_id)

C19_Witness ==
    /\ pc = "bg_done"
    /\ bg_status.genogram \in {"failed_generate", "failed_store"}
    /\ bg_status.bodymap = "stored"
    /\ drafts = {DraftKey(tasks[1].bodymap_id)}

----------------------------------------------------------------------------
(* Claims about _generate_with_retry *)

\* C18: one call of _generate_with_retry calls the backend at most `retries`
\* times; a further call follows only an error that carries the rate-limit
\* signal; an error without the signal is raised at once, and a rate-limit
\* error on the last attempt is raised to the caller.
C18_BoundedRetry ==
    /\ calls <= retries
    /\ \A i \in 1..calls :
         /\ i < calls => backend[i] \in SignalMessages
         /\ backend[i] \in ErrorMessages \ SignalMessages =>
                /\ i = calls
                /\ pc = "gen_raised"
                /\ retry_result = [kind |-> "raised", error |-> backend[i]]
    /\ (calls = retries /\ backend[retries] \in SignalMessages) =>
           /\ pc = "gen_raised"
           /\ retry_result = [kind |-> "raised", error |-> backend[retries]]

C18_Witness ==
    /\ pc = "gen_raised"
    /\ calls = retries
    /\ Len(sleeps) = retries - 1
    /\ backend[retries] \in SignalMessages

----------------------------------------------------------------------------
(* Claims about write_to_sheets *)

\* C15: in create_and_write_assessment, once the template is copied and the
\* first worksheet is written, a failure of the second worksheet's write
\* leaves a successful result: success, the new document's URL and id, and
\* write_count equal to the first pass's count.
C15_SecondPassFailureKept ==
    ( /\ pc = "sheets_done"
      /\ request.write_mode = "create"
      /\ new_docs = {"new_id"}
      /\ Len(writes) = 2
      /\ ~writes[1].raised
      /\ writes[2].raised )
    => /\ create_result = [success |-> TRUE, sheet_url |-> "new_url",
                           write_count |-> writes[1].count,
                           spreadsheet_id |-> "new_id"]
       /\ response.success
       /\ response.data = create_result

C15_Witness ==
    /\ pc = "sheets_done"
    /\ request.write_mode = "create"
    /\ new_docs = {"new_id"}
    /\ Len(writes) = 2
    /\ writes[1] = [raised |-> FALSE, count |-> MaxWriteCount]
    /\ writes[2].raised
    /\ create_result.write_count = MaxWriteCount

C17_CreationFailureKeepsAppend ==
    ( /\ pc = "sheets_done"
      /\ request.write_mode = "append"
      /\ request.meeting_type \in {"service_meeting", "management_meeting"}
      /\ append_result # <<>>
      /\ \/ creation = "raised"
         \/ creation = "returned" /\ ~create_result.success )
    => /\ response = ResultResponse(append_result)
       /\ append_result.success => response.success

\* C29: in append mode for the two meeting types, the success flag and the
\* error of the response are those of the append to the master log alone;
\* when the append fails and the standalone document is created, the
\* response reports success=false with the standalone document's URL.
C29_AppendAloneDecides ==
    ( /\ pc = "sheets_done"
      /\ request.write_mode = "append"
      /\ request.meeting_type \in {"service_meeting", "management_meeting"}
      /\ append_result # <<>> )
    => /\ response.success = append_result.success
       /\ response.error = Get(append_result, "error", "")
       /\ (~append_result.success /\ Get(create_result, "success", FALSE))
          => /\ ~response.success
             /\ response.data.sheet_url = create_result.sheet_url

\* C30: in analyze_audio a key of file_keys whose fetch fails is skipped and
\* the other keys are still fetched, in order, and analysed; when nothing
\* could be fetched the answer is a failure and the AI service is not
\* called: no extraction, no draft id, no background task.
C30_FailedFetchSkipped ==
    ( /\ pc = "api_done"
      /\ endpoint = "analyze_audio"
      /\ request.file_keys # <<>> \/ request.file_key # NoKey )
    => /\ request.file_keys # <<>> =>
            /\ Len(fetched) = Len(SelectSeq(request.file_keys,
                                            LAMBDA k : k \in in_store))
            /\ \A i \in 1..Len(fetched) :
                 fetched[i].key = SelectSeq(request.file_keys,
                                            LAMBDA k : k \in in_store)[i]
       /\ fetched = <<>> =>
            /\ response = Failure("No accessible files found")
            /\ analysis = "none"
            /\ uuids = 0
            /\ tasks = <<>>
       /\ (fetched # <<>> /\ request.analysis_type \in SummaryTypes \cup {"assessment"})
            => analysis \in ServiceOutcomes

C30_Witness ==
    /\ pc = "api_done"
    /\ endpoint = "analyze_audio"
    /\ request.file_keys = <<"c", "a.pdf">>
    /\ in_store = {"a.pdf"}
    /\ fetched = <<[key |-> "a.pdf", mime |-> "application/pdf"]>>
    /\ analysis = "returned"

----------------------------------------------------------------------------
(* Further claims about write_data *)

\* C22: a write_data call for which the selected mapping is missing or empty
\* raises, with an initialised client the "Mapping not loaded" error, before
\* the spreadsheet is opened and before any cell write; a call without the
\* client raises before any write as well.
C22_FailsBeforeAnyWrite ==
    ( /\ pc \in {"write_raised", "write_batch", "write_fallback", "write_returned"}
      /\ \/ ~client
         \/ ~SelectedMapping.loaded
         \/ SelectedMapping.entries = <<>> )
    => /\ pc = "write_raised"
       /\ write_result.kind = "error"
       /\ write_result.error =
             IF client THEN "Mapping not loaded"
             ELSE "Google Sheets client not initialized"
       /\ open_calls = 0
       /\ cells_to_update = <<>>
       /\ batch_log = <<>>
       /\ cell_log = <<>>

\* The call has raised for a mapping file that was read and held no entry,
\* with a record that names fields.
C22_Witness ==
    /\ pc = "write_raised"
    /\ client
    /\ SelectedMapping.loaded
    /\ SelectedMapping.entries = <<>>
    /\ data # <<>>
    /\ write_result.error = "Mapping not loaded"

\* C27: write_data returns the number of queued (cell, value) pairs, fixed
\* before the first write is issued, whether the batch write succeeded, the
\* per-cell fallback ran, or some of the per-cell writes failed.
C27_CountIsQueued ==
    /\ (batch_log # <<>> \/ cell_log # <<>>) =>
          /\ written_count = Len(cells_to_update)
          /\ Len(batch_log[1]) = written_count
    /\ pc = "write_returned" =>
          /\ write_result.kind = "count"
          /\ write_result.count = Len(cells_to_update)

\* The call has returned 2 after a failed batch and two per-cell writes of
\* which one failed.
C27_Witness ==
    /\ pc = "write_returned"
    /\ batch_failed
    /\ Len(cells_to_update) = 2
    /\ \E i, j \in 1..Len(cell_log) : cell_log[i].ok /\ ~cell_log[j].ok
    /\ write_result.count = 2

\* The keys of the flattened record, other than the first candidate of the
\* field, that are related to the field name and carry a text to write.
OtherUsable(name, first) ==
    {k \in ContainMatches(name, flat_data) \ {first} :
        flat_data[k].value \notin {<<>>, BlankSentinel}}

FirstCandidate(name) ==
    IF HasKey(flat_data, name)
    THEN CHOOSE k \in 1..Len(flat_data) : flat_data[k].key = name
    ELSE SetMin(ContainMatches(name, flat_data))

\* C28: the resolution of a mapping field stops at its first candidate: when
\* the exact key exists with an empty value, or there is no exact key and the
\* first containment-matching key has an empty or placeholder value, the
\* field is skipped, even when another containment-matching key of the
\* record carries a non-empty value.
C28_FirstCandidateOnly ==
    Resolved =>
        \A k \in 1..Len(resolved) :
            LET r == resolved[k] IN
            ( /\ HasKey(flat_data, r.name) \/ ContainMatches(r.name, flat_data) # {}
              /\ flat_data[FirstCandidate(r.name)].value \in {<<>>, BlankSentinel} )
            => /\ r.value = flat_data[FirstCandidate(r.name)].value
               /\ r.cell \notin WrittenCells

\* Both cases have happened: a field skipped on its empty exact key, and a
\* field skipped on its empty first containment match, each while another
\* related key carried a text.
C28_Witness ==
    /\ Resolved
    /\ \E k \in 1..Len(resolved) :
          /\ HasKey(flat_data, resolved[k].name)
          /\ resolved[k].value = <<>>
          /\ OtherUsable(resolved[k].name, FirstCandidate(resolved[k].name)) # {}
          /\ resolved[k].cell \notin WrittenCells
    /\ \E k \in 1..Len(resolved) :
          /\ ~HasKey(flat_data, resolved[k].name)
          /\ resolved[k].via = "contain"
          /\ resolved[k].value = <<>>
          /\ OtherUsable(resolved[k].name, FirstCandidate(resolved[k].name)) # {}
          /\ resolved[k].cell \notin WrittenCells

----------------------------------------------------------------------------
(* Further claims about the row writers *)

\* C24: in a row writer, when the header row read from the worksheet is
\* empty, the call returns an explicit failure (success=false,
\* write_count=0) and appends no row.
C24_EmptyHeadersFail ==
    [][ ( /\ pc = "mrow_call"
          /\ client
          /\ ws_exists
          /\ headers = <<>>
          /\ pc' = "mrow_done" )
        => /\ ~row_result'.success
           /\ row_result'.write_count = 0
           /\ appended' = <<>> ]_vars

----------------------------------------------------------------------------
(* Claims about _cleanup_files and the merged record *)

\* C23: a call of _cleanup_files attempts the remote deletion of every
\* handle and the removal of every temporary file, whichever of these
\* attempts fail, and raises nothing; on a handle that is released already
\* (deleted at the backend, temporary file gone) it changes nothing.
C23_EveryReleaseAttempted ==
    [][ /\ pc' = "cl_returned"
        /\ \A f \in Range(uploaded_files) :
              /\ delete_calls'[f] = delete_calls[f] + 1
              /\ remote[f] = "deleted" => remote'[f] = "deleted"
        /\ \A f \in Range(tmp_paths) :
              /\ unlink_calls'[f] = unlink_calls[f] + 1
              /\ tmp[f] = "removed" => tmp'[f] = "removed" ]_vars

\* Two calls have returned on two handles or more: every handle has been
\* through delete_file and os.unlink twice and is released.
C23_Witness ==
    /\ pc = "cl_returned"
    /\ Len(uploaded_files) >= 2
    /\ \A f \in Range(uploaded_files) :
          /\ delete_calls[f] = 2
          /\ unlink_calls[f] = 2
          /\ remote[f] = "deleted"
          /\ tmp[f] = "removed"

\* C26: the merged record returned by extract_assessment_info holds no null:
\* whatever objects the backend returned in the phases, every value of the
\* record is a string.
C26_NoNullInRecord ==
    pc = "ex_returned" =>
        \A k \in DOMAIN master_result : master_result[k] # "null"

----------------------------------------------------------------------------
(* Claims about _generate_partial_prompt *)

\* The cell names of the slot clusters _generate_partial_prompt lists.
SlotFields ==
    Range(body_challenges) \cup Range(activity_challenges)
        \cup Range(participation_challenges) \cup Range(other_challenges)
        \cup Range(outlooks)

\* C25: the prompt of a group holds a slot-filling instruction block when
\* the group contains one of the known slot fields, and holds none when the
\* group contains no such field.
C25_SlotBlockPresence ==
    pc = "prompt_done" =>
        (Range(fields) \cap SlotFields # {} <=> prompt.sequential # <<>>)

\* ---------------------------------------------------------------------------
\* main.py: get_draft, the polling of a draft artifact
\* ---------------------------------------------------------------------------

MaxDrafts == 4

DraftIds == 1..MaxDrafts

\* storage_service.get_file(key) followed by json.loads(data_bytes.decode()):
\* get_file raises ValueError without a client, get_object raises for a key
\* that is not stored and whenever the backend fails, and decode or json.loads
\* raise on bytes that are no JSON document.
HardErrors == {"unconfigured", "backend_failed", "corrupt"}
GetFileOutcomes(has_client, stored) ==
    IF ~has_client THEN {"unconfigured"}
    ELSE {"backend_failed"}
         \cup (IF stored THEN {"loaded", "corrupt"} ELSE {"no_such_key"})

\* return json.loads(...): the stored draft.
DraftJson == Success("draft")

\* try: get_file, json.loads except Exception: raise HTTPException(404);
\* the outer "except HTTPException: raise" passes it on, and the outer
\* "except Exception: raise HTTPException(500)" is left with nothing to catch.
GetDraftResponse(out) ==
    IF out = "loaded" THEN DraftJson ELSE Escapes("404")

InitDraft ==
    /\ pc = "draft_call"
    /\ endpoint = "get_draft"
    /\ request \in [draft_id : DraftIds]
    /\ s3_client \in BOOLEAN
    /\ in_store \in (IF s3_client THEN SUBSET {DraftKey(i) : i \in DraftIds}
                     ELSE {{}})
    /\ drafts = in_store
    /\ fetched = <<>>
    /\ analysis = "none"
    /\ response = NoResponse
    /\ uuids = 0
    /\ tasks = <<>>
    /\ bg_status = BgIdle
    /\ ApiRestIdle

GetDraft ==
    /\ pc = "draft_call"
    /\ endpoint = "get_draft"
    /\ pc' = "draft_done"
    /\ \E out \in GetFileOutcomes(s3_client,
                                  DraftKey(request.draft_id) \in in_store) :
         /\ analysis' = out
         /\ response' = GetDraftResponse(out)
    /\ UNCHANGED <<endpoint, request, s3_client, in_store, fetched, uuids,
                   tasks, drafts, bg_status, apiUntouched>>

NextDraft == GetDraft

SpecDraft == InitDraft /\ [][NextDraft]_vars

\* C21: a poll of get_draft for an artifact that is not stored ends in the
\* 404 outcome, and a poll that meets a hard error (no storage client, a
\* failing backend, a corrupt artifact) ends in the server fault 500.
C21_NotReadyDistinguishable ==
    pc = "draft_done" =>
        /\ analysis = "no_such_key" => response = Escapes("404")
        /\ analysis \in HardErrors => response = Escapes("500")

====
